---- MODULE Spec2Model ----
(***************************************************************************)
(* Model of tinywasm/server: the strategy-based lifecycle supervisor       *)
(* (ServerHandler), its two strategies (inMemoryStrategy,                  *)
(* externalStrategy), the handler-level start/restart/file-event entry     *)
(* points and the one-time scaffold generator.                             *)
(*                                                                         *)
(* Go code runs on goroutines without a global lock, so every operation is *)
(* modelled as a call executed by a thread, one action per statement group *)
(* that touches shared state.  A thread record keeps the position (pc),    *)
(* the return stack, the arguments and locals of the call, and what the    *)
(* call has done so far (trace, log).                                      *)
(*                                                                         *)
(* Collaborators outside the repository (gobuild, gorun, net/http, the     *)
(* file system) are modelled by their contract: CompileProgram succeeds    *)
(* iff the source file holds compilable content, RunProgram and            *)
(* StopProgram may fail, a launched child replaces the runner's previous   *)
(* child, ListenAndServe fails when the port is taken.                     *)
(***************************************************************************)
EXTENDS Integers, Sequences, FiniteSets, TLC

\* ---------------------------------------------------------------- bounds
MaxEvents ==
    5

MaxExit ==
    1

MaxConcEvents ==
    2

MaxSwitchEvents ==
    2

MaxGenEvents ==
    2

MaxSegs ==
    3

MaxUIEvents ==
    3

MaxExitEvents ==
    3

MaxWGEvents ==
    3

MaxCTSEvents ==
    3

\* ------------------------------------------------------------ value sets
Threads ==
    {"t1", "t2"}

MainFile ==
    "main.go"

FileNames ==
    {"main.go", "utils.go"}

Events ==
    {"write", "create", "remove"}

Absent ==
    "absent"

GeneratedContent ==
    "scaffold"

UserContents ==
    {"empty", "bad", "v1", "v2"}

NoChild ==
    [ver |-> "none", owner |-> 0]

\* newInMemoryStrategy: running = false, server = nil
NewInMemory ==
    [running |-> FALSE, server |-> "nil"]

NoSelf ==
    [kind |-> "none", id |-> 0]

Nil ==
    <<>>

\* NewConfig(): the default configuration.  String fields hold their text;
\* function and channel fields are "nil", "default" (made by New or
\* NewConfig) or "custom" (supplied by the caller).
NewConfig ==
    [AppRootDir |-> ".", SourceDir |-> "web", OutputDir |-> "web",
     PublicDir |-> "web/public", MainInputFile |-> "main.go",
     AppPort |-> "8080", Routes |-> "nil", ExitChan |-> "default",
     ArgumentsForCompilingServer |-> "nil", ArgumentsToRunServer |-> "nil"]

\* the text fields of Config, which New tests against ""
StringFields ==
    {"AppRootDir", "SourceDir", "OutputDir", "PublicDir", "MainInputFile",
     "AppPort"}

\* the Config a caller gets from &Config{}: every field at its zero value
ZeroConfig ==
    [f \in DOMAIN NewConfig |-> IF f \in StringFields THEN "" ELSE "nil"]

\* the Configs a caller can hand to New: each field left out or supplied
Configs ==
    {c \in [DOMAIN NewConfig -> {"", "nil", "custom"}] :
        \A f \in DOMAIN NewConfig :
            c[f] \in (IF f \in StringFields THEN {"", "custom"}
                                             ELSE {"nil", "custom"})}

\* the handler's Config after New(nil)
Constructed ==
    [phase |-> "constructed", arg |-> "nil", in |-> ZeroConfig, c |-> NewConfig]

\* the embedded document: a sequence of segments, prose or fenced blocks;
\* a body is a sequence of tokens ("sp" is white space, "port" the
\* {{.AppPort}} action)
EmbeddedDoc ==
    <<[kind |-> "text", body |-> <<"x">>],
      [kind |-> "go", body |-> <<"sp", "port", "sp">>]>>

VARIABLES
    inMemory,     \* ServerHandler.inMemory
    strategy,     \* ServerHandler.strategy: [kind, id] of the active object
    mem,          \* inMemoryStrategy objects: id -> [running, server]
    nextInst,     \* number of strategy objects constructed so far
    srv,          \* http.Server created by the Start running on a thread
    port,         \* who holds AppPort: "free", "child" or a thread's server
    file,         \* content of <AppRootDir>/<SourceDir>/<MainInputFile>
    binary,       \* content the compiled executable was built from
    child,        \* the external child process: [ver, owner]
    exitPending,  \* signals sent on ExitChan and not yet received
    th,           \* the threads (goroutines) and the call each one executes
    budget,       \* calls and developer writes the run may still begin
    doc,          \* the embedded markdown document templates/server_basic.md
    db,           \* the Store value kept under StoreKeyExternalServer
    ui,           \* the UI object: [present, refreshes]
    cfg,          \* the Config of New: [phase, arg, in, c]
    scaffold      \* bytes the generator last wrote to the main file

vars ==
    <<inMemory, strategy, mem, nextInst, srv, port, file, binary, child,
      exitPending, th, budget, doc, db, ui, cfg, scaffold>>

\* --------------------------------------------------------------- helpers
Range(s) ==
    {s[i] : i \in 1..Len(s)}

\* errors.Join(errors.New(tag), err): the text of the result holds the tag
\* and the text of err.
Join(tag, err) ==
    <<tag>> \o err

\* strings.Contains(err.Error(), v)
Contains(err, v) ==
    v \in Range(err)

IgnoreError ==
    {"signal: killed", "signal: interrupt"}

ShouldIgnore(err) ==
    \E v \in IgnoreError : Contains(err, v)

Exists(f) ==
    f # Absent

\* contract of gobuild.CompileProgram: opaque error when the source is
\* missing or does not compile.
Compiles(c) ==
    c \in {"v1", "v2", GeneratedContent}

StopErrs ==
    {"signal: interrupt"}

RunErrs ==
    {"signal: killed", "exec failed"}

ShutdownErrs ==
    {"context deadline exceeded"}

WriteErrs ==
    {"permission denied"}

IdleFrame ==
    [pc |-> "idle", op |-> "none", ext |-> FALSE, name |-> "", event |-> "",
     wg |-> FALSE, self |-> NoSelf, stack |-> <<>>, err |-> Nil,
     trace |-> <<>>, log |-> <<>>, dones |-> 0, pre |-> Absent,
     started |-> FALSE, old |-> NoSelf, src |-> "none", launched |-> "none",
     rerr |-> Nil, bin0 |-> "none", child0 |-> "none", prevFail |-> FALSE,
     processed |-> <<>>, tmplErr |-> "none", out |-> <<>>, writes |-> 0,
     stored |-> "no", refresh0 |-> 0,
     db0 |-> "none", mode0 |-> "none", db00 |-> "none", mode00 |-> "none"]

Fresh(opname, entry) ==
    [IdleFrame EXCEPT !.pc = entry, !.op = opname, !.stack = <<"done">>]

Call(f, entry, retpc) ==
    [f EXCEPT !.pc = entry, !.stack = <<retpc>> \o f.stack]

Ret(f, e) ==
    [f EXCEPT !.pc = Head(f.stack), !.stack = Tail(f.stack), !.err = e]

Log(f, m) ==
    [f EXCEPT !.log = Append(@, m)]

Did(f, what) ==
    [f EXCEPT !.trace = Append(@, what)]

Compiled(f) ==
    [Did(f, "compile") EXCEPT !.src = file]

Launched(f) ==
    [Did(f, "run") EXCEPT !.launched = binary]

Goto(f, p) ==
    [f EXCEPT !.pc = p]

SetTh(t, f) ==
    th' = [th EXCEPT ![t] = f]

CanBegin(t) ==
    th[t].pc \in {"idle", "done"} /\ budget > 0

\* a call begins on thread t; the frame notes what the caller can observe
\* at that moment (the executable on disk, the child, whether the previous
\* call on this thread returned a compile error)
Begin(t, f) ==
    /\ CanBegin(t)
    /\ budget' = budget - 1
    /\ SetTh(t, [f EXCEPT !.bin0 = binary, !.child0 = child.ver,
                          !.prevFail = Contains(th[t].err, "compile error")])

StartEntry(kind) ==
    IF kind = "mem" THEN "ms_lock" ELSE "es_start"

StopEntry(kind) ==
    IF kind = "mem" THEN "mstop" ELSE "es_stop"

RestartEntry(kind) ==
    IF kind = "mem" THEN "mrestart" ELSE "er_start"

EventEntry(kind) ==
    IF kind = "mem" THEN "mevent" ELSE "eh_start"

\* gorun.RunProgram launched a child: it replaces the runner's previous
\* child and listens on AppPort when the port is free.
Launch(owner) ==
    /\ child' = [ver |-> binary, owner |-> owner]
    /\ port' = IF port \in {"free", "child"} THEN "child" ELSE port

\* the child is gone and with it its socket
Kill ==
    /\ child' = NoChild
    /\ port' = IF port = "child" THEN "free" ELSE port

\* ------------------------------------------------------------------ Init
InitBase ==
    /\ file \in {Absent, "v1"}
    /\ inMemory \in (IF Exists(file) THEN {TRUE, FALSE} ELSE {TRUE})
    /\ strategy = [kind |-> IF inMemory THEN "mem" ELSE "ext", id |-> 1]
    /\ mem = (1 :> NewInMemory)
    /\ nextInst = 1
    /\ srv = [t \in Threads |-> "none"]
    /\ port = "free"
    /\ binary = "none"
    /\ child = NoChild
    /\ exitPending = 0
    /\ th = [t \in Threads |-> IdleFrame]
    /\ scaffold = <<>>

\* the handler was built by New from the default configuration and embeds
\* the scaffold document
InitHandler ==
    /\ InitBase
    /\ db = "unset"
    /\ ui = [present |-> TRUE, refreshes |-> 0]
    /\ doc = EmbeddedDoc
    /\ cfg = Constructed

Init ==
    InitHandler /\ budget = MaxEvents

InitConc ==
    InitHandler /\ budget = MaxConcEvents

InitSwitch ==
    InitHandler /\ budget = MaxSwitchEvents

\* ===================================================== external strategy
\* a startServer that goes on to run when the compiler reported an error
externalStrategy_startServer_compile_ignoreError(t) ==
    /\ th[t].pc = "ess_compile"
    /\ binary' = IF Compiles(file) THEN file ELSE binary
    /\ SetTh(t, Goto(Compiled(th[t]), "ess_run"))
    /\ UNCHANGED <<inMemory, strategy, mem, nextInst, srv, port, file, child,
                   exitPending, budget, doc, db, ui, cfg, scaffold>>

\* externalStrategy.startServer: compile
externalStrategy_startServer_compile(t) ==
    /\ th[t].pc = "ess_compile"
    /\ IF Compiles(file)
       THEN /\ binary' = file
            /\ SetTh(t, Goto(Compiled(th[t]), "ess_run"))
       ELSE /\ UNCHANGED binary
            /\ SetTh(t, Ret(Compiled(th[t]),
                            Join("startServer", <<"compile error">>)))
    /\ UNCHANGED <<inMemory, strategy, mem, nextInst, srv, port, file, child,
                   exitPending, budget, doc, db, ui, cfg, scaffold>>

\* externalStrategy.startServer: run
externalStrategy_startServer_run(t) ==
    /\ th[t].pc = "ess_run"
    /\ \/ /\ Launch(th[t].self.id)
          /\ SetTh(t, Ret(Log(Launched(th[t]), <<"Started:">>), Nil))
       \/ \E e \in RunErrs :
             /\ UNCHANGED <<child, port>>
             /\ SetTh(t, Ret(Did(th[t], "run"), Join("startServer", <<e>>)))
    /\ UNCHANGED <<inMemory, strategy, mem, nextInst, srv, file, binary,
                   exitPending, budget, doc, db, ui, cfg, scaffold>>

\* a Start that reuses the executable of a previous start
externalStrategy_Start_reuseBinary(t) ==
    /\ th[t].pc = "es_start"
    /\ SetTh(t, Call(Did(th[t], "Start"),
                     IF binary # "none" THEN "ess_run" ELSE "ess_compile", "es_ret"))
    /\ UNCHANGED <<inMemory, strategy, mem, nextInst, srv, port, file, binary,
                   child, exitPending, budget, doc, db, ui, cfg, scaffold>>

\* externalStrategy.Start: call startServer
externalStrategy_Start(t) ==
    /\ th[t].pc = "es_start"
    /\ SetTh(t, Call(Did(th[t], "Start"), "ess_compile", "es_ret"))
    /\ UNCHANGED <<inMemory, strategy, mem, nextInst, srv, port, file, binary,
                   child, exitPending, budget, doc, db, ui, cfg, scaffold>>

\* externalStrategy.Start: deferred wg.Done, return startServer's error
externalStrategy_Start_return(t) ==
    /\ th[t].pc = "es_ret"
    /\ SetTh(t, Ret([th[t] EXCEPT !.dones = IF th[t].wg THEN @ + 1 ELSE @],
                    th[t].err))
    /\ UNCHANGED <<inMemory, strategy, mem, nextInst, srv, port, file, binary,
                   child, exitPending, budget, doc, db, ui, cfg, scaffold>>

\* externalStrategy.Stop: returns nil and stops nothing
externalStrategy_Stop(t) ==
    /\ th[t].pc = "es_stop"
    /\ SetTh(t, Ret(Did(th[t], "Stop"), Nil))
    /\ UNCHANGED <<inMemory, strategy, mem, nextInst, srv, port, file, binary,
                   child, exitPending, budget, doc, db, ui, cfg, scaffold>>

\* externalStrategy.Restart: call startServer
externalStrategy_Restart(t) ==
    /\ th[t].pc = "er_start"
    /\ SetTh(t, Call(Did(th[t], "Restart"), "ess_compile", "er_ret"))
    /\ UNCHANGED <<inMemory, strategy, mem, nextInst, srv, port, file, binary,
                   child, exitPending, budget, doc, db, ui, cfg, scaffold>>

\* externalStrategy.Restart: log the error unless it is a termination signal
externalStrategy_Restart_return(t) ==
    /\ th[t].pc = "er_ret"
    /\ LET e == th[t].err
           f == IF e # Nil /\ ~ShouldIgnore(e) THEN Log(th[t], e) ELSE th[t]
       IN  SetTh(t, Ret([f EXCEPT !.rerr = e], e))
    /\ UNCHANGED <<inMemory, strategy, mem, nextInst, srv, port, file, binary,
                   child, exitPending, budget, doc, db, ui, cfg, scaffold>>

\* a HandleFileEvent that restarts only for the main source file
externalStrategy_HandleFileEvent_mainOnly(t) ==
    /\ th[t].pc = "eh_start"
    /\ IF th[t].event = "write" /\ th[t].name = MainFile
       THEN SetTh(t, Call(Log(th[t], <<"Go file modified, restarting external server ...">>),
                          "er_start", "eh_ret"))
       ELSE SetTh(t, Ret(th[t], Nil))
    /\ UNCHANGED <<inMemory, strategy, mem, nextInst, srv, port, file, binary,
                   child, exitPending, budget, doc, db, ui, cfg, scaffold>>

\* externalStrategy.HandleFileEvent: "write" calls Restart, the rest is nil
externalStrategy_HandleFileEvent(t) ==
    /\ th[t].pc = "eh_start"
    /\ IF th[t].event = "write"
       THEN SetTh(t, Call(Log(th[t], <<"Go file modified, restarting external server ...">>),
                          "er_start", "eh_ret"))
       ELSE SetTh(t, Ret(th[t], Nil))
    /\ UNCHANGED <<inMemory, strategy, mem, nextInst, srv, port, file, binary,
                   child, exitPending, budget, doc, db, ui, cfg, scaffold>>

\* externalStrategy.HandleFileEvent: log the outcome, return Restart's error
externalStrategy_HandleFileEvent_return(t) ==
    /\ th[t].pc = "eh_ret"
    /\ LET e == th[t].err
           f == IF e # Nil
                THEN Log(th[t], <<"RestartServer failed:">> \o e)
                ELSE Log(th[t], <<"RestartServer succeeded">>)
       IN  SetTh(t, Ret(f, e))
    /\ UNCHANGED <<inMemory, strategy, mem, nextInst, srv, port, file, binary,
                   child, exitPending, budget, doc, db, ui, cfg, scaffold>>


\* ===================================================== embedded strategy
\* a Start that does not test the running flag
inMemoryStrategy_Start_lock_noTest(t) ==
    /\ th[t].pc = "ms_lock"
    /\ mem' = [mem EXCEPT ![th[t].self.id].running = TRUE]
    /\ SetTh(t, Goto(Did(th[t], "Start"), "ms_server"))
    /\ UNCHANGED <<inMemory, strategy, nextInst, srv, port, file, binary, child,
                   exitPending, budget, doc, db, ui, cfg, scaffold>>

\* inMemoryStrategy.Start: the section under s.mu
inMemoryStrategy_Start_lock(t) ==
    /\ th[t].pc = "ms_lock"
    /\ LET i == th[t].self.id
       IN  IF mem[i].running
           THEN /\ SetTh(t, Ret([Did(th[t], "Start") EXCEPT
                                   !.dones = IF th[t].wg THEN @ + 1 ELSE @], Nil))
                /\ UNCHANGED mem
           ELSE /\ mem' = [mem EXCEPT ![i].running = TRUE]
                /\ SetTh(t, Goto(Did(th[t], "Start"), "ms_server"))
    /\ UNCHANGED <<inMemory, strategy, nextInst, srv, port, file, binary, child,
                   exitPending, budget, doc, db, ui, cfg, scaffold>>

\* inMemoryStrategy.Start: s.server = &http.Server{...}; go srv.ListenAndServe()
inMemoryStrategy_Start_server(t) ==
    /\ th[t].pc = "ms_server"
    /\ mem' = [mem EXCEPT ![th[t].self.id].server = t]
    /\ srv' = [srv EXCEPT ![t] = "new"]
    /\ SetTh(t, Goto(Log(th[t], <<"Starting In-Memory Server on port:">>), "ms_wait"))
    /\ UNCHANGED <<inMemory, strategy, nextInst, port, file, binary, child,
                   exitPending, budget, doc, db, ui, cfg, scaffold>>

\* the goroutine of inMemoryStrategy.Start: srv.ListenAndServe()
inMemoryStrategy_Start_ListenAndServe(t) ==
    /\ srv[t] = "new"
    /\ IF port = "free"
       THEN /\ srv' = [srv EXCEPT ![t] = "listening"]
            /\ port' = t
            /\ UNCHANGED th
       ELSE /\ srv' = [srv EXCEPT ![t] = "failed"]
            /\ UNCHANGED port
            /\ SetTh(t, Log(th[t], <<"In-Memory Server error:">>))
    /\ UNCHANGED <<inMemory, strategy, mem, nextInst, file, binary, child,
                   exitPending, budget, doc, db, ui, cfg, scaffold>>

\* a Start that stops the server without waiting for the shutdown signal
inMemoryStrategy_Start_wait_noBlock(t) ==
    /\ th[t].pc = "ms_wait"
    /\ SetTh(t, Call(th[t], "mstop", "ms_ret"))
    /\ UNCHANGED <<inMemory, strategy, mem, nextInst, srv, port, file, binary,
                   child, exitPending, budget, doc, db, ui, cfg, scaffold>>

\* inMemoryStrategy.Start: <-s.handler.ExitChan, then s.Stop()
inMemoryStrategy_Start_wait(t) ==
    /\ th[t].pc = "ms_wait"
    /\ exitPending > 0
    /\ exitPending' = exitPending - 1
    /\ SetTh(t, Call(th[t], "mstop", "ms_ret"))
    /\ UNCHANGED <<inMemory, strategy, mem, nextInst, srv, port, file, binary,
                   child, budget, doc, db, ui, cfg, scaffold>>

\* a Start that returns after the shutdown without wg.Done()
inMemoryStrategy_Start_return_noDone(t) ==
    /\ th[t].pc = "ms_ret"
    /\ SetTh(t, Ret(th[t], Nil))
    /\ UNCHANGED <<inMemory, strategy, mem, nextInst, srv, port, file, binary,
                   child, exitPending, budget, doc, db, ui, cfg, scaffold>>

\* inMemoryStrategy.Start: wg.Done(), return nil
inMemoryStrategy_Start_return(t) ==
    /\ th[t].pc = "ms_ret"
    /\ SetTh(t, Ret([th[t] EXCEPT !.dones = IF th[t].wg THEN @ + 1 ELSE @], Nil))
    /\ UNCHANGED <<inMemory, strategy, mem, nextInst, srv, port, file, binary,
                   child, exitPending, budget, doc, db, ui, cfg, scaffold>>

\* a Stop that reports an error when there is nothing to stop
inMemoryStrategy_Stop_notIdempotent(t) ==
    /\ th[t].pc = "mstop"
    /\ LET i == th[t].self.id
           s == mem[i].server
       IN  IF ~mem[i].running \/ s = "nil"
           THEN /\ SetTh(t, Ret(Did(th[t], "Stop"), <<"server not running">>))
                /\ UNCHANGED <<mem, srv, port>>
           ELSE /\ srv' = [srv EXCEPT ![s] = "closed"]
                /\ port' = IF port = s THEN "free" ELSE port
                /\ mem' = [mem EXCEPT ![i] = [running |-> FALSE, server |-> "nil"]]
                /\ \E e \in {Nil} \cup {<<x>> : x \in ShutdownErrs} :
                      SetTh(t, Ret(Log(Did(th[t], "Stop"),
                                       <<"In-Memory Server stopped">>), e))
    /\ UNCHANGED <<inMemory, strategy, nextInst, file, binary, child,
                   exitPending, budget, doc, db, ui, cfg, scaffold>>

\* inMemoryStrategy.Stop, all of it under s.mu
inMemoryStrategy_Stop(t) ==
    /\ th[t].pc = "mstop"
    /\ LET i == th[t].self.id
           s == mem[i].server
       IN  IF ~mem[i].running \/ s = "nil"
           THEN /\ SetTh(t, Ret(Did(th[t], "Stop"), Nil))
                /\ UNCHANGED <<mem, srv, port>>
           ELSE /\ srv' = [srv EXCEPT ![s] = "closed"]
                /\ port' = IF port = s THEN "free" ELSE port
                /\ mem' = [mem EXCEPT ![i] = [running |-> FALSE, server |-> "nil"]]
                /\ \E e \in {Nil} \cup {<<x>> : x \in ShutdownErrs} :
                      SetTh(t, Ret(Log(Did(th[t], "Stop"),
                                       <<"In-Memory Server stopped">>), e))
    /\ UNCHANGED <<inMemory, strategy, nextInst, file, binary, child,
                   exitPending, budget, doc, db, ui, cfg, scaffold>>

\* inMemoryStrategy.Restart: return nil
inMemoryStrategy_Restart(t) ==
    /\ th[t].pc = "mrestart"
    /\ SetTh(t, Ret(Did(th[t], "Restart"), Nil))
    /\ UNCHANGED <<inMemory, strategy, mem, nextInst, srv, port, file, binary,
                   child, exitPending, budget, doc, db, ui, cfg, scaffold>>

\* an embedded HandleFileEvent that stops the server on a "write" event
inMemoryStrategy_HandleFileEvent_stopOnWrite(t) ==
    /\ th[t].pc = "mevent"
    /\ IF th[t].event = "write"
       THEN SetTh(t, Goto(th[t], "mstop"))
       ELSE SetTh(t, Ret(th[t], Nil))
    /\ UNCHANGED <<inMemory, strategy, mem, nextInst, srv, port, file, binary,
                   child, exitPending, budget, doc, db, ui, cfg, scaffold>>

\* inMemoryStrategy.HandleFileEvent: return nil
inMemoryStrategy_HandleFileEvent(t) ==
    /\ th[t].pc = "mevent"
    /\ SetTh(t, Ret(th[t], Nil))
    /\ UNCHANGED <<inMemory, strategy, mem, nextInst, srv, port, file, binary,
                   child, exitPending, budget, doc, db, ui, cfg, scaffold>>

\* ============================================================= generator
\* the kinds of segment of a markdown document: prose, a fenced block of the
\* target language, a fenced block of another language
Kinds ==
    {"text", "go", "js"}

\* segment bodies: plain code, code with surrounding white space, white
\* space only, the {{.AppPort}} action, an action naming a field that
\* serverTemplateData does not have, an action that is not closed
Bodies ==
    {<<"x">>, <<"sp", "y", "sp">>, <<"sp">>, <<"port">>, <<"bad">>, <<"open">>}

Segments ==
    [kind : Kinds, body : Bodies]

Docs ==
    UNION {[1..n -> Segments] : n \in 0..MaxSegs}

DocTokens(d) ==
    UNION {Range(d[i].body) : i \in 1..Len(d)}

\* tmpl.Execute: every {{.AppPort}} action becomes the text of data.AppPort
Execute(d, data) ==
    [i \in 1..Len(d) |->
        [kind |-> d[i].kind,
         body |-> [k \in 1..Len(d[i].body) |->
                      IF d[i].body[k] = "port" THEN data.AppPort
                      ELSE d[i].body[k]]]]

\* processTemplate: Parse fails on an action that is not closed, Execute on
\* a field the data does not have; both return the markdown as it came
processTemplate(markdown, data) ==
    IF "open" \in DocTokens(markdown)
    THEN [text |-> markdown, err |-> "parse"]
    ELSE IF "bad" \in DocTokens(markdown)
         THEN [text |-> markdown, err |-> "exec"]
         ELSE [text |-> Execute(markdown, data), err |-> "none"]

RECURSIVE TrimLeft(_)
TrimLeft(b) ==
    IF b # <<>> /\ Head(b) = "sp" THEN TrimLeft(Tail(b)) ELSE b

RECURSIVE TrimRight(_)
TrimRight(b) ==
    IF b # <<>> /\ b[Len(b)] = "sp"
    THEN TrimRight(SubSeq(b, 1, Len(b) - 1))
    ELSE b

\* strings.TrimSpace
TrimSpace(b) ==
    TrimRight(TrimLeft(b))

\* the loop over the matches of the fenced-block pattern: the trimmed body
\* of every target-language block, in document order
RECURSIVE codeBlocks(_)
\* an extraction that puts every block in front of the ones before it
codeBlocks_prepend(d) ==
    IF d = <<>> THEN <<>>
    ELSE IF Head(d).kind = "go"
         THEN codeBlocks(Tail(d)) \o <<TrimSpace(Head(d).body)>>
         ELSE codeBlocks(Tail(d))

codeBlocks(d) ==
    IF d = <<>> THEN <<>>
    ELSE IF Head(d).kind = "go"
         THEN <<TrimSpace(Head(d).body)>> \o codeBlocks(Tail(d))
         ELSE codeBlocks(Tail(d))

\* strings.Join(codeBlocks, "\n\n")
RECURSIVE JoinBlocks(_)
JoinBlocks(bs) ==
    IF bs = <<>> THEN <<>>
    ELSE IF Len(bs) = 1 THEN bs[1]
         ELSE bs[1] \o <<"\n\n">> \o JoinBlocks(Tail(bs))

extractGoCodeFromMarkdown(d) ==
    JoinBlocks(codeBlocks(d))

\* a generator without the existence test
generateServerFromEmbeddedMarkdown_stat_noCheck(t) ==
    /\ th[t].pc = "gen_stat"
    /\ SetTh(t, Goto([Did(th[t], "generate") EXCEPT !.pre = file], "gen_template"))
    /\ UNCHANGED <<inMemory, strategy, mem, nextInst, srv, port, file, binary,
                   child, exitPending, budget, doc, db, ui, cfg, scaffold>>

\* generateServerFromEmbeddedMarkdown: os.Stat(targetPath)
generateServerFromEmbeddedMarkdown_stat(t) ==
    /\ th[t].pc = "gen_stat"
    /\ LET f == [Did(th[t], "generate") EXCEPT !.pre = file]
       IN  IF Exists(file)
           THEN SetTh(t, Ret(Log(f, <<"Server file already exists, skipping generation">>), Nil))
           ELSE SetTh(t, Goto(f, "gen_template"))
    /\ UNCHANGED <<inMemory, strategy, mem, nextInst, srv, port, file, binary,
                   child, exitPending, budget, doc, db, ui, cfg, scaffold>>

\* a generator that gives up when the template cannot be processed
generateServerFromEmbeddedMarkdown_template_propagate(t) ==
    /\ th[t].pc = "gen_template"
    /\ LET r == processTemplate(doc, [AppPort |-> cfg.c.AppPort,
                                      PublicDir |-> cfg.c.PublicDir])
           f == [th[t] EXCEPT !.processed = r.text, !.tmplErr = r.err]
       IN  IF r.err # "none"
           THEN SetTh(t, Ret(Log(f, <<"Template error">>), <<"processing template">>))
           ELSE SetTh(t, Goto(f, "gen_write"))
    /\ UNCHANGED <<inMemory, strategy, mem, nextInst, srv, port, file, binary,
                   child, exitPending, budget, doc, db, ui, cfg, scaffold>>

\* generateServerFromEmbeddedMarkdown: processTemplate over the embedded
\* document; on an error the unprocessed document is used
generateServerFromEmbeddedMarkdown_template(t) ==
    /\ th[t].pc = "gen_template"
    /\ LET r == processTemplate(doc, [AppPort |-> cfg.c.AppPort,
                                      PublicDir |-> cfg.c.PublicDir])
           f == [th[t] EXCEPT !.processed = IF r.err # "none" THEN doc ELSE r.text,
                              !.tmplErr = r.err]
       IN  SetTh(t, Goto(IF r.err = "parse"
                         THEN Log(f, <<"Template parsing error (using fallback):">>)
                         ELSE IF r.err = "exec"
                              THEN Log(f, <<"Template execution error (using fallback):">>)
                              ELSE f,
                         "gen_write"))
    /\ UNCHANGED <<inMemory, strategy, mem, nextInst, srv, port, file, binary,
                   child, exitPending, budget, doc, db, ui, cfg, scaffold>>

\* a generator that tries the write again after a failure
generateServerFromEmbeddedMarkdown_write_retry(t) ==
    /\ th[t].pc = "gen_write"
    /\ LET f == [th[t] EXCEPT !.out = extractGoCodeFromMarkdown(th[t].processed),
                              !.writes = @ + 1]
       IN  \/ /\ file' = GeneratedContent
              /\ scaffold' = f.out
              /\ SetTh(t, Ret(Log(f, <<"Generated server file">>), Nil))
           \/ \E e \in WriteErrs :
                 /\ UNCHANGED <<file, scaffold>>
                 /\ IF f.writes < 2
                    THEN SetTh(t, f)
                    ELSE SetTh(t, Ret(f, Join("extracting go code from markdown", <<e>>)))
    /\ UNCHANGED <<inMemory, strategy, mem, nextInst, srv, port, binary, child,
                   exitPending, budget, doc, db, ui, cfg>>

\* generateServerFromEmbeddedMarkdown: m.Extract(...) takes the code blocks
\* out of the processed document and hands them to the writer (MkdirAll,
\* WriteFile), once
generateServerFromEmbeddedMarkdown_write(t) ==
    /\ th[t].pc = "gen_write"
    /\ LET f == [th[t] EXCEPT !.out = extractGoCodeFromMarkdown(th[t].processed),
                              !.writes = @ + 1]
       IN  \/ /\ file' = GeneratedContent
              /\ scaffold' = f.out
              /\ SetTh(t, Ret(Log(f, <<"Generated server file">>), Nil))
           \/ \E e \in WriteErrs :
                 /\ UNCHANGED <<file, scaffold>>
                 /\ SetTh(t, Ret(f, Join("extracting go code from markdown", <<e>>)))
    /\ UNCHANGED <<inMemory, strategy, mem, nextInst, srv, port, binary, child,
                   exitPending, budget, doc, db, ui, cfg>>

\* ============================================================ supervisor
\* a SetExternalServerMode that switches without testing the current mode
SetExternalServerMode_check_noTest(t) ==
    /\ th[t].pc = "sem_check"
    /\ inMemory' = ~th[t].ext
    /\ SetTh(t, Goto(Log(th[t], <<"Switching mode...">>), "sem_stop"))
    /\ UNCHANGED <<strategy, mem, nextInst, srv, port, file, binary, child,
                   exitPending, budget, doc, db, ui, cfg, scaffold>>

\* SetExternalServerMode: the mode test and the flag assignment
SetExternalServerMode_check(t) ==
    /\ th[t].pc = "sem_check"
    /\ IF inMemory = th[t].ext
       THEN /\ inMemory' = ~th[t].ext
            /\ SetTh(t, Goto(Log(th[t], <<"Switching mode...">>), "sem_stop"))
       ELSE /\ UNCHANGED inMemory
            /\ SetTh(t, Ret(th[t], Nil))
    /\ UNCHANGED <<strategy, mem, nextInst, srv, port, file, binary, child,
                   exitPending, budget, doc, db, ui, cfg, scaffold>>

\* SetExternalServerMode: h.strategy.Stop()
SetExternalServerMode_stop(t) ==
    /\ th[t].pc = "sem_stop"
    /\ SetTh(t, Call([th[t] EXCEPT !.self = strategy, !.old = strategy],
                     StopEntry(strategy.kind), "sem_new"))
    /\ UNCHANGED <<inMemory, strategy, mem, nextInst, srv, port, file, binary,
                   child, exitPending, budget, doc, db, ui, cfg, scaffold>>

\* SetExternalServerMode: h.strategy = newExternalStrategy(h) / newInMemoryStrategy(h)
SetExternalServerMode_new(t) ==
    /\ th[t].pc = "sem_new"
    /\ nextInst' = nextInst + 1
    /\ mem' = mem @@ ((nextInst + 1) :> NewInMemory)
    /\ strategy' = [kind |-> IF th[t].ext THEN "ext" ELSE "mem", id |-> nextInst + 1]
    /\ SetTh(t, Goto(th[t], "sem_start"))
    /\ UNCHANGED <<inMemory, srv, port, file, binary, child,
                   exitPending, budget, doc, db, ui, cfg, scaffold>>

\* SetExternalServerMode: h.strategy.Start(nil)
SetExternalServerMode_start(t) ==
    /\ th[t].pc = "sem_start"
    /\ SetTh(t, Call([th[t] EXCEPT !.self = strategy, !.started = TRUE, !.wg = FALSE],
                     StartEntry(strategy.kind), "sem_ret"))
    /\ UNCHANGED <<inMemory, strategy, mem, nextInst, srv, port, file, binary,
                   child, exitPending, budget, doc, db, ui, cfg, scaffold>>

\* SetExternalServerMode: the results of Stop and Start are discarded
SetExternalServerMode_return(t) ==
    /\ th[t].pc = "sem_ret"
    /\ SetTh(t, Ret(th[t], Nil))
    /\ UNCHANGED <<inMemory, strategy, mem, nextInst, srv, port, file, binary,
                   child, exitPending, budget, doc, db, ui, cfg, scaffold>>

\* CreateTemplateServer: already external?
CreateTemplateServer_check(t) ==
    /\ th[t].pc = "cts_check"
    /\ IF ~inMemory
       THEN SetTh(t, Ret(th[t], Nil))
       ELSE SetTh(t, Goto(th[t], "cts_stop"))
    /\ UNCHANGED <<inMemory, strategy, mem, nextInst, srv, port, file, binary,
                   child, exitPending, budget, doc, db, ui, cfg, scaffold>>

\* CreateTemplateServer: h.strategy.Stop()
CreateTemplateServer_stop(t) ==
    /\ th[t].pc = "cts_stop"
    /\ SetTh(t, Call([th[t] EXCEPT !.self = strategy, !.old = strategy],
                     StopEntry(strategy.kind), "cts_stopped"))
    /\ UNCHANGED <<inMemory, strategy, mem, nextInst, srv, port, file, binary,
                   child, exitPending, budget, doc, db, ui, cfg, scaffold>>

\* a CreateTemplateServer that sets the flag before it generates
CreateTemplateServer_generate_flagFirst(t) ==
    /\ th[t].pc = "cts_stopped"
    /\ IF th[t].err # Nil
       THEN /\ SetTh(t, Ret(th[t], Join("failed to stop in-memory server", th[t].err)))
            /\ UNCHANGED inMemory
       ELSE /\ inMemory' = FALSE
            /\ SetTh(t, Call(th[t], "gen_stat", "cts_generated"))
    /\ UNCHANGED <<strategy, mem, nextInst, srv, port, file, binary,
                   child, exitPending, budget, doc, db, ui, cfg, scaffold>>

\* CreateTemplateServer: Stop failed? else generateServerFromEmbeddedMarkdown()
CreateTemplateServer_generate(t) ==
    /\ th[t].pc = "cts_stopped"
    /\ IF th[t].err # Nil
       THEN SetTh(t, Ret(th[t], Join("failed to stop in-memory server", th[t].err)))
       ELSE SetTh(t, Call(th[t], "gen_stat", "cts_generated"))
    /\ UNCHANGED <<inMemory, strategy, mem, nextInst, srv, port, file, binary,
                   child, exitPending, budget, doc, db, ui, cfg, scaffold>>

\* a CreateTemplateServer that sets the flag whatever the generator returns
CreateTemplateServer_flag_always(t) ==
    /\ th[t].pc = "cts_generated"
    /\ inMemory' = FALSE
    /\ IF th[t].err # Nil
       THEN SetTh(t, Ret(th[t], Join("failed to generate server files", th[t].err)))
       ELSE SetTh(t, Goto(th[t], "cts_new"))
    /\ UNCHANGED <<strategy, mem, nextInst, srv, port, file, binary, child,
                   exitPending, budget, doc, db, ui, cfg, scaffold>>

\* CreateTemplateServer: generation failed? else h.inMemory = false
CreateTemplateServer_flag(t) ==
    /\ th[t].pc = "cts_generated"
    /\ IF th[t].err # Nil
       THEN /\ SetTh(t, Ret(th[t], Join("failed to generate server files", th[t].err)))
            /\ UNCHANGED inMemory
       ELSE /\ inMemory' = FALSE
            /\ SetTh(t, Goto(th[t], "cts_new"))
    /\ UNCHANGED <<strategy, mem, nextInst, srv, port, file, binary, child,
                   exitPending, budget, doc, db, ui, cfg, scaffold>>

\* CreateTemplateServer: h.strategy = newExternalStrategy(h)
CreateTemplateServer_new(t) ==
    /\ th[t].pc = "cts_new"
    /\ nextInst' = nextInst + 1
    /\ mem' = mem @@ ((nextInst + 1) :> NewInMemory)
    /\ strategy' = [kind |-> "ext", id |-> nextInst + 1]
    /\ SetTh(t, Goto(th[t], "cts_start"))
    /\ UNCHANGED <<inMemory, srv, port, file, binary, child,
                   exitPending, budget, doc, db, ui, cfg, scaffold>>

\* CreateTemplateServer: h.strategy.Start(nil)
CreateTemplateServer_start(t) ==
    /\ th[t].pc = "cts_start"
    /\ SetTh(t, Call([th[t] EXCEPT !.self = strategy, !.started = TRUE, !.wg = FALSE],
                     StartEntry(strategy.kind), "cts_ret"))
    /\ UNCHANGED <<inMemory, strategy, mem, nextInst, srv, port, file, binary,
                   child, exitPending, budget, doc, db, ui, cfg, scaffold>>

\* a CreateTemplateServer that goes back to the embedded strategy when the
\* start of the external one failed
CreateTemplateServer_return_rollback(t) ==
    /\ th[t].pc = "cts_ret"
    /\ IF th[t].err # Nil
       THEN /\ SetTh(t, Ret(th[t], Join("failed to start external server", th[t].err)))
            /\ inMemory' = TRUE
            /\ strategy' = th[t].old
       ELSE /\ SetTh(t, Ret(th[t], Nil))
            /\ UNCHANGED <<inMemory, strategy>>
    /\ UNCHANGED <<mem, nextInst, srv, port, file, binary,
                   child, exitPending, budget, doc, db, ui, cfg, scaffold>>

\* CreateTemplateServer: wrap and return the error of Start
CreateTemplateServer_return(t) ==
    /\ th[t].pc = "cts_ret"
    /\ IF th[t].err # Nil
       THEN SetTh(t, Ret(th[t], Join("failed to start external server", th[t].err)))
       ELSE SetTh(t, Ret(th[t], Nil))
    /\ UNCHANGED <<inMemory, strategy, mem, nextInst, srv, port, file, binary,
                   child, exitPending, budget, doc, db, ui, cfg, scaffold>>

\* ============================== handler-level start, restart, file event
\* ServerHandler.startServer: h.goCompiler.CompileProgram()
startServer_compile(t) ==
    /\ th[t].pc = "hss_compile"
    /\ IF Compiles(file)
       THEN /\ binary' = file
            /\ SetTh(t, Goto(Compiled(th[t]), "hss_run"))
       ELSE /\ UNCHANGED binary
            /\ SetTh(t, Ret(Compiled(th[t]),
                            Join("startServer", <<"compile error">>)))
    /\ UNCHANGED <<inMemory, strategy, mem, nextInst, srv, port, file, child,
                   exitPending, budget, doc, db, ui, cfg, scaffold>>

\* ServerHandler.startServer: h.goRun.RunProgram()
startServer_run(t) ==
    /\ th[t].pc = "hss_run"
    /\ \/ /\ Launch(0)
          /\ SetTh(t, Ret(Log(Launched(th[t]), <<"Started:">>), Nil))
       \/ \E e \in RunErrs :
             /\ UNCHANGED <<child, port>>
             /\ SetTh(t, Ret(Did(th[t], "run"), Join("startServer", <<e>>)))
    /\ UNCHANGED <<inMemory, strategy, mem, nextInst, srv, file, binary,
                   exitPending, budget, doc, db, ui, cfg, scaffold>>

\* RestartServer: h.goRun.StopProgram()
RestartServer_stop(t) ==
    /\ th[t].pc = "rs_stop"
    /\ \/ /\ Kill
          /\ SetTh(t, Goto(Did(th[t], "stop"), "rs_sleep"))
       \/ \E e \in StopErrs :
             /\ UNCHANGED <<child, port>>
             /\ SetTh(t, Ret(Log(Did(th[t], "stop"),
                                 <<"RestartServer", "StopProgram failed:", e>>),
                             <<"RestartServer", "stop server", e>>))
    /\ UNCHANGED <<inMemory, strategy, mem, nextInst, srv, file, binary,
                   exitPending, budget, doc, db, ui, cfg, scaffold>>

\* RestartServer: time.Sleep(100 * time.Millisecond)
RestartServer_sleep(t) ==
    /\ th[t].pc = "rs_sleep"
    /\ SetTh(t, Goto(Did(th[t], "pause"), "rs_compile"))
    /\ UNCHANGED <<inMemory, strategy, mem, nextInst, srv, port, file, binary,
                   child, exitPending, budget, doc, db, ui, cfg, scaffold>>

\* RestartServer: h.goCompiler.CompileProgram()
RestartServer_compile(t) ==
    /\ th[t].pc = "rs_compile"
    /\ IF Compiles(file)
       THEN /\ binary' = file
            /\ SetTh(t, Goto(Compiled(th[t]), "rs_run"))
       ELSE /\ UNCHANGED binary
            /\ SetTh(t, Ret(Log(Compiled(th[t]),
                                <<"RestartServer", "CompileProgram failed:", "compile error">>),
                            <<"RestartServer", "compile server", "compile error">>))
    /\ UNCHANGED <<inMemory, strategy, mem, nextInst, srv, port, file, child,
                   exitPending, budget, doc, db, ui, cfg, scaffold>>

\* RestartServer: h.goRun.RunProgram()
RestartServer_run(t) ==
    /\ th[t].pc = "rs_run"
    /\ \/ /\ Launch(0)
          /\ SetTh(t, Ret(Log(Launched(th[t]), <<"Rebooted">>), Nil))
       \/ \E e \in RunErrs :
             /\ UNCHANGED <<child, port>>
             /\ SetTh(t, Ret(Log(Did(th[t], "run"),
                                 <<"RestartServer", "RunProgram failed:", e>>),
                             <<"RestartServer", "run server", e>>))
    /\ UNCHANGED <<inMemory, strategy, mem, nextInst, srv, file, binary,
                   exitPending, budget, doc, db, ui, cfg, scaffold>>

\* NewFileEvent: "write" restarts, "create" of the main file starts
NewFileEvent_dispatch(t) ==
    /\ th[t].pc = "nfe_start"
    /\ IF th[t].event = "write"
       THEN SetTh(t, Call(Log(Did(th[t], "Restart"),
                              <<"Go file modified, restarting external server ...">>),
                          "rs_stop", "nfe_ret"))
       ELSE IF th[t].event = "create" /\ th[t].name = MainFile
            THEN SetTh(t, Goto(Did(th[t], "Start"), "hss_compile"))
            ELSE SetTh(t, Ret(th[t], Nil))
    /\ UNCHANGED <<inMemory, strategy, mem, nextInst, srv, port, file, binary,
                   child, exitPending, budget, doc, db, ui, cfg, scaffold>>

\* NewFileEvent: log the outcome of RestartServer and return its error
NewFileEvent_return(t) ==
    /\ th[t].pc = "nfe_ret"
    /\ LET e == th[t].err
           f == IF e # Nil
                THEN Log(th[t], <<"RestartServer failed:">> \o e)
                ELSE Log(th[t], <<"RestartServer succeeded">>)
       IN  SetTh(t, Ret(f, e))
    /\ UNCHANGED <<inMemory, strategy, mem, nextInst, srv, port, file, binary,
                   child, exitPending, budget, doc, db, ui, cfg, scaffold>>

\* a StartServer that never generates the main file
StartServer_stat_noGenerate(t) ==
    /\ th[t].pc = "ss_stat"
    /\ SetTh(t, Call(th[t], "hss_compile", "ss_ret"))
    /\ UNCHANGED <<inMemory, strategy, mem, nextInst, srv, port, file, binary,
                   child, exitPending, budget, doc, db, ui, cfg, scaffold>>

\* StartServer: generate the main file when os.Stat says it does not exist
StartServer_stat(t) ==
    /\ th[t].pc = "ss_stat"
    /\ IF ~Exists(file)
       THEN SetTh(t, Call(th[t], "gen_stat", "ss_generated"))
       ELSE SetTh(t, Call(th[t], "hss_compile", "ss_ret"))
    /\ UNCHANGED <<inMemory, strategy, mem, nextInst, srv, port, file, binary,
                   child, exitPending, budget, doc, db, ui, cfg, scaffold>>

\* StartServer: log a generation error, then h.startServer()
StartServer_start(t) ==
    /\ th[t].pc = "ss_generated"
    /\ LET f == IF th[t].err # Nil
                THEN Log(th[t], <<"generate server from markdown:">> \o th[t].err)
                ELSE th[t]
       IN  SetTh(t, Call(f, "hss_compile", "ss_ret"))
    /\ UNCHANGED <<inMemory, strategy, mem, nextInst, srv, port, file, binary,
                   child, exitPending, budget, doc, db, ui, cfg, scaffold>>

\* StartServer: log the error unless it is a termination signal; wg.Done()
StartServer_return(t) ==
    /\ th[t].pc = "ss_ret"
    /\ LET e == th[t].err
           f == IF e # Nil /\ ~ShouldIgnore(e) THEN Log(th[t], e) ELSE th[t]
       IN  SetTh(t, Ret([f EXCEPT !.dones = @ + 1], e))
    /\ UNCHANGED <<inMemory, strategy, mem, nextInst, srv, port, file, binary,
                   child, exitPending, budget, doc, db, ui, cfg, scaffold>>

\* ========================================================= entry points
\* a caller invokes SetExternalServerMode(external)
SetExternalServerMode(t, external) ==
    /\ Begin(t, [Fresh("SetExternalServerMode", "sem_check") EXCEPT !.ext = external])
    /\ UNCHANGED <<inMemory, strategy, mem, nextInst, srv, port, file, binary,
                   child, exitPending, doc, db, ui, cfg, scaffold>>

\* a caller invokes CreateTemplateServer(nil)
CreateTemplateServer(t) ==
    /\ Begin(t, Fresh("CreateTemplateServer", "cts_check"))
    /\ UNCHANGED <<inMemory, strategy, mem, nextInst, srv, port, file, binary,
                   child, exitPending, doc, db, ui, cfg, scaffold>>

\* a caller invokes generateServerFromEmbeddedMarkdown()
generateServerFromEmbeddedMarkdown(t) ==
    /\ Begin(t, Fresh("generate", "gen_stat"))
    /\ UNCHANGED <<inMemory, strategy, mem, nextInst, srv, port, file, binary,
                   child, exitPending, doc, db, ui, cfg, scaffold>>

\* a caller invokes StartServer(wg)
StartServer(t) ==
    /\ Begin(t, [Fresh("StartServer", "ss_stat") EXCEPT !.wg = TRUE])
    /\ UNCHANGED <<inMemory, strategy, mem, nextInst, srv, port, file, binary,
                   child, exitPending, doc, db, ui, cfg, scaffold>>

\* the watcher invokes NewFileEvent(fileName, extension, filePath, event)
NewFileEvent(t, fileName, event) ==
    /\ Begin(t, [Fresh("NewFileEvent", "nfe_start") EXCEPT
                   !.name = fileName, !.event = event])
    /\ UNCHANGED <<inMemory, strategy, mem, nextInst, srv, port, file, binary,
                   child, exitPending, doc, db, ui, cfg, scaffold>>

\* h.strategy.Start(wg) on the active strategy
ServerStrategy_Start(t, wg) ==
    /\ Begin(t, [Fresh("Start", StartEntry(strategy.kind)) EXCEPT
                   !.self = strategy, !.wg = wg])
    /\ UNCHANGED <<inMemory, strategy, mem, nextInst, srv, port, file, binary,
                   child, exitPending, doc, db, ui, cfg, scaffold>>

\* h.strategy.Stop() on the active strategy
ServerStrategy_Stop(t) ==
    /\ Begin(t, [Fresh("Stop", StopEntry(strategy.kind)) EXCEPT !.self = strategy])
    /\ UNCHANGED <<inMemory, strategy, mem, nextInst, srv, port, file, binary,
                   child, exitPending, doc, db, ui, cfg, scaffold>>

\* h.strategy.Restart() on the active strategy
ServerStrategy_Restart(t) ==
    /\ Begin(t, [Fresh("Restart", RestartEntry(strategy.kind)) EXCEPT !.self = strategy])
    /\ UNCHANGED <<inMemory, strategy, mem, nextInst, srv, port, file, binary,
                   child, exitPending, doc, db, ui, cfg, scaffold>>

\* h.strategy.HandleFileEvent(fileName, extension, filePath, event)
ServerStrategy_HandleFileEvent(t, fileName, event) ==
    /\ Begin(t, [Fresh("HandleFileEvent", EventEntry(strategy.kind)) EXCEPT
                   !.self = strategy, !.name = fileName, !.event = event])
    /\ UNCHANGED <<inMemory, strategy, mem, nextInst, srv, port, file, binary,
                   child, exitPending, doc, db, ui, cfg, scaffold>>

\* =========================================================== environment
\* the developer saves the main source file
WriteSource(c) ==
    /\ budget > 0
    /\ budget' = budget - 1
    /\ file' = c
    /\ UNCHANGED <<inMemory, strategy, mem, nextInst, srv, port, binary, child,
                   exitPending, th, doc, db, ui, cfg, scaffold>>

\* the application sends the shutdown signal on ExitChan
SendExit ==
    /\ exitPending < MaxExit
    /\ exitPending' = exitPending + 1
    /\ UNCHANGED <<inMemory, strategy, mem, nextInst, srv, port, file, binary,
                   child, th, budget, doc, db, ui, cfg, scaffold>>

ThreadStep(t) ==
    \/ externalStrategy_startServer_compile(t)
    \/ externalStrategy_startServer_run(t)
    \/ externalStrategy_Start(t)
    \/ externalStrategy_Start_return(t)
    \/ externalStrategy_Stop(t)
    \/ externalStrategy_Restart(t)
    \/ externalStrategy_Restart_return(t)
    \/ externalStrategy_HandleFileEvent(t)
    \/ externalStrategy_HandleFileEvent_return(t)
    \/ inMemoryStrategy_Start_lock(t)
    \/ inMemoryStrategy_Start_server(t)
    \/ inMemoryStrategy_Start_ListenAndServe(t)
    \/ inMemoryStrategy_Start_wait(t)
    \/ inMemoryStrategy_Start_return(t)
    \/ inMemoryStrategy_Stop(t)
    \/ inMemoryStrategy_Restart(t)
    \/ inMemoryStrategy_HandleFileEvent(t)
    \/ generateServerFromEmbeddedMarkdown_stat(t)
    \/ generateServerFromEmbeddedMarkdown_template(t)
    \/ generateServerFromEmbeddedMarkdown_write(t)
    \/ SetExternalServerMode_check(t)
    \/ SetExternalServerMode_stop(t)
    \/ SetExternalServerMode_new(t)
    \/ SetExternalServerMode_start(t)
    \/ SetExternalServerMode_return(t)
    \/ CreateTemplateServer_check(t)
    \/ CreateTemplateServer_stop(t)
    \/ CreateTemplateServer_generate(t)
    \/ CreateTemplateServer_flag(t)
    \/ CreateTemplateServer_new(t)
    \/ CreateTemplateServer_start(t)
    \/ CreateTemplateServer_return(t)
    \/ startServer_compile(t)
    \/ startServer_run(t)
    \/ RestartServer_stop(t)
    \/ RestartServer_sleep(t)
    \/ RestartServer_compile(t)
    \/ RestartServer_run(t)
    \/ NewFileEvent_dispatch(t)
    \/ NewFileEvent_return(t)
    \/ StartServer_stat(t)
    \/ StartServer_start(t)
    \/ StartServer_return(t)

Entry(t) ==
    \/ \E e \in BOOLEAN : SetExternalServerMode(t, e)
    \/ CreateTemplateServer(t)
    \/ generateServerFromEmbeddedMarkdown(t)
    \/ StartServer(t)
    \/ \E n \in FileNames, e \in Events : NewFileEvent(t, n, e)
    \/ \E w \in BOOLEAN : ServerStrategy_Start(t, w)
    \/ ServerStrategy_Stop(t)
    \/ ServerStrategy_Restart(t)
    \/ \E n \in FileNames, e \in Events : ServerStrategy_HandleFileEvent(t, n, e)

\* one caller: every call returns before the next one begins
Next ==
    \/ ThreadStep("t1")
    \/ Entry("t1")
    \/ \E c \in UserContents : WriteSource(c)
    \/ SendExit

Spec ==
    Init /\ [][Next]_vars

\* every call in progress keeps running: a goroutine that can take a step
\* eventually takes one
SpecLive ==
    Init /\ [][Next]_vars /\ WF_vars(ThreadStep("t1"))

\* ------------------------------------------- concurrent file events
\* Two watcher contexts deliver file events (and restart requests) at the
\* same time; nothing in the handlers serialises them.
ConcStep(t) ==
    \/ externalStrategy_startServer_compile(t)
    \/ externalStrategy_startServer_run(t)
    \/ externalStrategy_Restart(t)
    \/ externalStrategy_Restart_return(t)
    \/ externalStrategy_HandleFileEvent(t)
    \/ externalStrategy_HandleFileEvent_return(t)
    \/ inMemoryStrategy_Restart(t)
    \/ inMemoryStrategy_HandleFileEvent(t)
    \/ startServer_compile(t)
    \/ startServer_run(t)
    \/ RestartServer_stop(t)
    \/ RestartServer_sleep(t)
    \/ RestartServer_compile(t)
    \/ RestartServer_run(t)
    \/ NewFileEvent_dispatch(t)
    \/ NewFileEvent_return(t)

ConcEntry(t) ==
    \/ \E n \in FileNames, e \in Events : NewFileEvent(t, n, e)
    \/ ServerStrategy_Restart(t)
    \/ \E n \in FileNames, e \in Events : ServerStrategy_HandleFileEvent(t, n, e)

NextConc ==
    \/ \E t \in Threads : ConcStep(t)
    \/ \E t \in Threads : ConcEntry(t)
    \/ \E c \in UserContents : WriteSource(c)

SpecConc ==
    InitConc /\ [][NextConc]_vars

\* ------------------------------------------------------ mode toggle UI
\* a caller invokes ServerModeHandler.Execute(); the frame notes the stored
\* value and the mode at this call and at the Execute call before it
ServerModeHandler_Execute(t) ==
    /\ Begin(t, [Fresh("Execute", "exec_get") EXCEPT
                   !.refresh0 = ui.refreshes,
                   !.db0 = db,
                   !.mode0 = IF inMemory THEN "mem" ELSE "ext",
                   !.db00 = IF th[t].op = "Execute" THEN th[t].db0 ELSE "none",
                   !.mode00 = IF th[t].op = "Execute" THEN th[t].mode0 ELSE "none"])
    /\ UNCHANGED <<inMemory, strategy, mem, nextInst, srv, port, file, binary,
                   child, exitPending, doc, db, ui, cfg, scaffold>>

\* Execute: s.db.Get(StoreKeyExternalServer), then the toggle; a Get that
\* fails reads as "false"
ServerModeHandler_Execute_get(t) ==
    /\ th[t].pc = "exec_get"
    /\ \E ok \in BOOLEAN :
          SetTh(t, Goto([Did(th[t], "Get") EXCEPT !.ext = ~(ok /\ db = "true")],
                        "exec_set"))
    /\ UNCHANGED <<inMemory, strategy, mem, nextInst, srv, port, file, binary,
                   child, exitPending, budget, doc, db, ui, cfg, scaffold>>

\* Execute: s.db.Set(StoreKeyExternalServer, external); the error of Set is
\* not looked at
ServerModeHandler_Execute_set(t) ==
    /\ th[t].pc = "exec_set"
    /\ \/ /\ db' = (IF th[t].ext THEN "true" ELSE "false")
          /\ SetTh(t, Goto([Did(th[t], "Set") EXCEPT !.stored = "ok"], "exec_switch"))
       \/ /\ UNCHANGED db
          /\ SetTh(t, Goto([Did(th[t], "Set") EXCEPT !.stored = "failed"], "exec_switch"))
    /\ UNCHANGED <<inMemory, strategy, mem, nextInst, srv, port, file, binary,
                   child, exitPending, budget, doc, ui, cfg, scaffold>>

\* an Execute that refreshes the UI before it switches the mode
ServerModeHandler_Execute_switch_refreshFirst(t) ==
    /\ th[t].pc = "exec_switch"
    /\ ui' = IF ui.present THEN [ui EXCEPT !.refreshes = @ + 1] ELSE ui
    /\ SetTh(t, Call(Did(th[t], "RefreshUI"), "sem_check", "exec_refresh"))
    /\ UNCHANGED <<inMemory, strategy, mem, nextInst, srv, port, file, binary,
                   child, exitPending, budget, doc, db, cfg, scaffold>>

\* Execute: s.h.SetExternalServerMode(isExternal)
ServerModeHandler_Execute_switch(t) ==
    /\ th[t].pc = "exec_switch"
    /\ SetTh(t, Call(Did(th[t], "SetExternalServerMode"), "sem_check", "exec_refresh"))
    /\ UNCHANGED <<inMemory, strategy, mem, nextInst, srv, port, file, binary,
                   child, exitPending, budget, doc, db, ui, cfg, scaffold>>

\* Execute: the log line, then s.ui.RefreshUI() when there is a UI
ServerModeHandler_Execute_refresh(t) ==
    /\ th[t].pc = "exec_refresh"
    /\ ui' = IF ui.present THEN [ui EXCEPT !.refreshes = @ + 1] ELSE ui
    /\ LET f == Log(th[t], IF th[t].ext
                           THEN <<"Switched to External Server Mode">>
                           ELSE <<"Switched to Internal Server Mode">>)
       IN  SetTh(t, Ret(IF ui.present THEN Did(f, "RefreshUI") ELSE f, Nil))
    /\ UNCHANGED <<inMemory, strategy, mem, nextInst, srv, port, file, binary,
                   child, exitPending, budget, doc, db, cfg, scaffold>>

\* Execute is called from one context, for any stored value and with or
\* without a UI
InitUI ==
    /\ InitBase
    /\ doc = EmbeddedDoc
    /\ cfg = Constructed
    /\ db \in {"unset", "true", "false"}
    /\ ui \in [present : BOOLEAN, refreshes : {0}]
    /\ budget = MaxUIEvents

UIStep(t) ==
    \/ ServerModeHandler_Execute_get(t)
    \/ ServerModeHandler_Execute_set(t)
    \/ ServerModeHandler_Execute_switch(t)
    \/ ServerModeHandler_Execute_refresh(t)
    \/ SetExternalServerMode_check(t)
    \/ SetExternalServerMode_stop(t)
    \/ SetExternalServerMode_new(t)
    \/ SetExternalServerMode_start(t)
    \/ SetExternalServerMode_return(t)
    \/ externalStrategy_Start(t)
    \/ externalStrategy_startServer_compile(t)
    \/ externalStrategy_startServer_run(t)
    \/ externalStrategy_Start_return(t)
    \/ externalStrategy_Stop(t)
    \/ inMemoryStrategy_Start_lock(t)
    \/ inMemoryStrategy_Start_server(t)
    \/ inMemoryStrategy_Start_ListenAndServe(t)
    \/ inMemoryStrategy_Start_wait(t)
    \/ inMemoryStrategy_Start_return(t)
    \/ inMemoryStrategy_Stop(t)

NextUI ==
    \/ UIStep("t1")
    \/ ServerModeHandler_Execute("t1")
    \/ SendExit

SpecUI ==
    InitUI /\ [][NextUI]_vars

\* ------------------------------------------------------- construction
\* New(c): a nil argument becomes NewConfig(); in a Config that is handed
\* in, every empty text field gets the text of NewConfig(), a nil ExitChan a
\* new channel and a nil argument provider a function that returns nil
New ==
    /\ cfg.phase = "input"
    /\ cfg' = [cfg EXCEPT
                 !.phase = "constructed",
                 !.c = IF cfg.arg = "nil"
                       THEN NewConfig
                       ELSE [f \in DOMAIN cfg.in |->
                               IF f \in StringFields
                               THEN IF cfg.in[f] = "" THEN NewConfig[f] ELSE cfg.in[f]
                               ELSE IF f = "Routes" THEN cfg.in[f]
                                    ELSE IF cfg.in[f] = "nil" THEN "default"
                                         ELSE cfg.in[f]]]
    /\ UNCHANGED <<inMemory, strategy, mem, nextInst, srv, port, file, binary,
                   child, exitPending, th, budget, doc, db, ui, scaffold>>

\* a caller is about to call New(nil) or New(c) for some Config c
InitNew ==
    /\ InitBase
    /\ db = "unset"
    /\ ui = [present |-> TRUE, refreshes |-> 0]
    /\ doc = EmbeddedDoc
    /\ budget = MaxEvents
    /\ \/ cfg = [Constructed EXCEPT !.phase = "input", !.c = ZeroConfig]
       \/ \E c \in Configs :
             cfg = [phase |-> "input", arg |-> "ptr", in |-> c, c |-> c]

NextNew ==
    New

SpecNew ==
    InitNew /\ [][NextNew]_vars

\* ------------------------------------------------ scaffold generation
\* The generator alone, for every embedded document of at most MaxSegs
\* segments.
InitGen ==
    /\ InitBase
    /\ db = "unset"
    /\ ui = [present |-> TRUE, refreshes |-> 0]
    /\ doc \in Docs
    /\ cfg = Constructed
    /\ budget = MaxGenEvents

NextGen ==
    \/ generateServerFromEmbeddedMarkdown("t1")
    \/ generateServerFromEmbeddedMarkdown_stat("t1")
    \/ generateServerFromEmbeddedMarkdown_template("t1")
    \/ generateServerFromEmbeddedMarkdown_write("t1")

SpecGen ==
    InitGen /\ [][NextGen]_vars

\* ------------------------------------------- concurrent lifecycle calls
\* One context is inside Start (the embedded Start blocks until the shutdown
\* signal) while another one stops the strategy, switches the mode or
\* delivers a file event.
SwitchStep(t) ==
    \/ externalStrategy_startServer_compile(t)
    \/ externalStrategy_startServer_run(t)
    \/ externalStrategy_Start(t)
    \/ externalStrategy_Start_return(t)
    \/ externalStrategy_Stop(t)
    \/ externalStrategy_Restart(t)
    \/ externalStrategy_Restart_return(t)
    \/ externalStrategy_HandleFileEvent(t)
    \/ externalStrategy_HandleFileEvent_return(t)
    \/ inMemoryStrategy_Start_lock(t)
    \/ inMemoryStrategy_Start_server(t)
    \/ inMemoryStrategy_Start_ListenAndServe(t)
    \/ inMemoryStrategy_Start_wait(t)
    \/ inMemoryStrategy_Start_return(t)
    \/ inMemoryStrategy_Stop(t)
    \/ inMemoryStrategy_Restart(t)
    \/ inMemoryStrategy_HandleFileEvent(t)
    \/ SetExternalServerMode_check(t)
    \/ SetExternalServerMode_stop(t)
    \/ SetExternalServerMode_new(t)
    \/ SetExternalServerMode_start(t)
    \/ SetExternalServerMode_return(t)

SwitchEntry(t) ==
    \/ \E e \in BOOLEAN : SetExternalServerMode(t, e)
    \/ \E w \in BOOLEAN : ServerStrategy_Start(t, w)
    \/ ServerStrategy_Stop(t)
    \/ ServerStrategy_Restart(t)
    \/ \E n \in FileNames, e \in Events : ServerStrategy_HandleFileEvent(t, n, e)

NextSwitch ==
    \/ \E t \in Threads : SwitchStep(t)
    \/ \E t \in Threads : SwitchEntry(t)
    \/ SendExit

SpecSwitch ==
    InitSwitch /\ [][NextSwitch]_vars

\* ------------------------------------------------------ shutdown signal
\* Two contexts start strategies and switch the mode while the application
\* sends the shutdown signal.
InitExit ==
    InitHandler /\ budget = MaxExitEvents

ExitStep(t) ==
    \/ externalStrategy_startServer_compile(t)
    \/ externalStrategy_startServer_run(t)
    \/ externalStrategy_Start(t)
    \/ externalStrategy_Start_return(t)
    \/ externalStrategy_Stop(t)
    \/ inMemoryStrategy_Start_lock(t)
    \/ inMemoryStrategy_Start_server(t)
    \/ inMemoryStrategy_Start_ListenAndServe(t)
    \/ inMemoryStrategy_Start_wait(t)
    \/ inMemoryStrategy_Start_return(t)
    \/ inMemoryStrategy_Stop(t)
    \/ SetExternalServerMode_check(t)
    \/ SetExternalServerMode_stop(t)
    \/ SetExternalServerMode_new(t)
    \/ SetExternalServerMode_start(t)
    \/ SetExternalServerMode_return(t)

ExitEntry(t) ==
    \/ \E e \in BOOLEAN : SetExternalServerMode(t, e)
    \/ \E w \in BOOLEAN : ServerStrategy_Start(t, w)

NextExit ==
    \/ \E t \in Threads : ExitStep(t)
    \/ \E t \in Threads : ExitEntry(t)
    \/ SendExit

SpecExit ==
    InitExit /\ [][NextExit]_vars

\* ----------------------------------------------------------- WaitGroup
\* Two contexts call Start on the active strategy and StartServer, with a
\* WaitGroup or without, while the developer edits the source and the
\* application sends the shutdown signal.
InitWG ==
    InitHandler /\ budget = MaxWGEvents

WGStep(t) ==
    \/ externalStrategy_startServer_compile(t)
    \/ externalStrategy_startServer_run(t)
    \/ externalStrategy_Start(t)
    \/ externalStrategy_Start_return(t)
    \/ inMemoryStrategy_Start_lock(t)
    \/ inMemoryStrategy_Start_server(t)
    \/ inMemoryStrategy_Start_ListenAndServe(t)
    \/ inMemoryStrategy_Start_wait(t)
    \/ inMemoryStrategy_Start_return(t)
    \/ inMemoryStrategy_Stop(t)
    \/ generateServerFromEmbeddedMarkdown_stat(t)
    \/ generateServerFromEmbeddedMarkdown_template(t)
    \/ generateServerFromEmbeddedMarkdown_write(t)
    \/ startServer_compile(t)
    \/ startServer_run(t)
    \/ StartServer_stat(t)
    \/ StartServer_start(t)
    \/ StartServer_return(t)

WGEntry(t) ==
    \/ \E w \in BOOLEAN : ServerStrategy_Start(t, w)
    \/ StartServer(t)

NextWG ==
    \/ \E t \in Threads : WGStep(t)
    \/ \E t \in Threads : WGEntry(t)
    \/ \E c \in UserContents : WriteSource(c)
    \/ SendExit

SpecWG ==
    InitWG /\ [][NextWG]_vars

\* ------------------------------------------------ CreateTemplateServer
\* One context is inside Start on the active strategy while another one
\* calls CreateTemplateServer.
InitCTS ==
    InitHandler /\ budget = MaxCTSEvents

CTSStep(t) ==
    \/ externalStrategy_startServer_compile(t)
    \/ externalStrategy_startServer_run(t)
    \/ externalStrategy_Start(t)
    \/ externalStrategy_Start_return(t)
    \/ inMemoryStrategy_Start_lock(t)
    \/ inMemoryStrategy_Start_server(t)
    \/ inMemoryStrategy_Start_ListenAndServe(t)
    \/ inMemoryStrategy_Start_wait(t)
    \/ inMemoryStrategy_Start_return(t)
    \/ inMemoryStrategy_Stop(t)
    \/ generateServerFromEmbeddedMarkdown_stat(t)
    \/ generateServerFromEmbeddedMarkdown_template(t)
    \/ generateServerFromEmbeddedMarkdown_write(t)
    \/ CreateTemplateServer_check(t)
    \/ CreateTemplateServer_stop(t)
    \/ CreateTemplateServer_generate(t)
    \/ CreateTemplateServer_flag(t)
    \/ CreateTemplateServer_new(t)
    \/ CreateTemplateServer_start(t)
    \/ CreateTemplateServer_return(t)

NextCTS ==
    \/ \E t \in Threads : CTSStep(t)
    \/ \E w \in BOOLEAN : ServerStrategy_Start("t1", w)
    \/ CreateTemplateServer("t2")
    \/ SendExit

SpecCTS ==
    InitCTS /\ [][NextCTS]_vars

TypeOK ==
    /\ inMemory \in BOOLEAN
    /\ strategy.kind \in {"mem", "ext"}
    /\ budget \in 0..MaxEvents
    /\ nextInst \in 1..(MaxEvents + 1)
    /\ DOMAIN mem = 1..nextInst
    /\ strategy.id \in 1..nextInst
    /\ \A i \in DOMAIN mem : mem[i].server \in Threads \cup {"nil"}
    /\ \A i \in DOMAIN mem : mem[i].server \in Threads =>
          srv[mem[i].server] \in {"new", "listening", "failed"}
    /\ \A t \in Threads : th[t].pc \in {"idle", "done"} =>
          srv[t] \in {"none", "closed"}
    /\ port \in Threads => srv[port] = "listening"
    /\ port = "child" => child # NoChild

\* ================================================================ claims
IsPrefix(a, b) ==
    Len(a) <= Len(b) /\ a = SubSeq(b, 1, Len(a))

\* the part of a call's trace from the first occurrence of `what` on
From(tr, what) ==
    IF what \in Range(tr)
    THEN LET i == CHOOSE k \in 1..Len(tr) :
                     tr[k] = what /\ \A j \in 1..(k - 1) : tr[j] # what
         IN  SubSeq(tr, i, Len(tr))
    ELSE <<>>

Returned(t) ==
    th[t].pc = "done"

\* the compile+run sequence of a Start or Restart is in flight on thread t
InFlight(t) ==
    th[t].pc \in {"ess_compile", "ess_run", "rs_stop", "rs_sleep", "rs_compile",
                  "rs_run", "hss_compile", "hss_run"}

\* the listener of embedded strategy object i holds the port
ListenerBound(i) ==
    port \in Threads /\ mem[i].server = port

\* C1: once a SetExternalServerMode call has begun to start the new
\* strategy, the strategy it replaced holds no resource any more: its
\* child process is gone (external) or its listener is unbound (embedded).
C1_OldStoppedBeforeNewStarts ==
    \A t \in Threads :
        (th[t].op = "SetExternalServerMode" /\ th[t].started) =>
            /\ th[t].old.kind = "ext" => child.owner # th[t].old.id
            /\ th[t].old.kind = "mem" => ~ListenerBound(th[t].old.id)

\* C2: in every state the inMemory flag agrees with the concrete type of
\* the active strategy.
C2_FlagAgreesWithStrategy ==
    inMemory <=> (strategy.kind = "mem")

\* C3: at most one compile+run sequence is in flight at any time.
C3_RestartsNeverOverlap ==
    \A t, u \in Threads : (InFlight(t) /\ InFlight(u)) => t = u

\* C4: a step of generateServerFromEmbeddedMarkdown made for a target that
\* existed when the call began leaves the file content as it is and is the
\* return of the call with a nil error.
C4_NeverOverwrite ==
    [][\A t \in Threads :
          (/\ th'[t] # th[t]
           /\ \/ th[t].pc = "gen_stat" /\ Exists(file)
              \/ th[t].pc = "gen_write" /\ Exists(th[t].pre))
          => /\ file' = file
             /\ th'[t].pc = Head(th[t].stack)
             /\ th'[t].err = Nil]_vars

\* a generate call has returned nil for a target that existed, empty, when
\* it began, and the (empty) content is still there
C4_Witness ==
    \E t \in Threads :
        /\ Returned(t) /\ th[t].op = "generate"
        /\ th[t].pre = "empty" /\ file = "empty" /\ th[t].err = Nil

\* C5: the steps of a Restart of the external strategy come in the order
\* stop, grace pause, compile, run.
C5_RestartOrder ==
    \A t \in Threads :
        (th[t].self.kind = "ext" /\ "Restart" \in Range(th[t].trace)) =>
            IsPrefix(From(th[t].trace, "Restart"),
                     <<"Restart", "stop", "pause", "compile", "run">>)

\* C6: a Restart of the external strategy whose compile failed has returned
\* an error, has not run anything, and no child process of the strategy is
\* running.
C6_CompileFailureLeavesStopped ==
    \A t \in Threads :
        (/\ Returned(t) /\ th[t].op = "Restart" /\ th[t].self.kind = "ext"
         /\ "compile" \in Range(th[t].trace) /\ ~Compiles(th[t].src))
        => /\ th[t].err # Nil
           /\ "run" \notin Range(th[t].trace)
           /\ child.owner # th[t].self.id

\* a "write" event has been handled to the end, by the external strategy or
\* by the handler's NewFileEvent
WriteEventReturned(t) ==
    /\ Returned(t) /\ th[t].event = "write"
    /\ \/ th[t].op = "HandleFileEvent" /\ th[t].self.kind = "ext"
       \/ th[t].op = "NewFileEvent"

\* C7: a "write" event whose compile failed returns an error and launches
\* no process; a "write" event returns nil exactly when its stop, compile and
\* run steps all succeeded, and then the child runs the source it compiled;
\* a compile error is reported only for a source that does not compile,
\* whatever the previous event returned.
C7_RestartAfterFix ==
    \A t \in Threads :
        WriteEventReturned(t) =>
            /\ ("compile" \in Range(th[t].trace) /\ ~Compiles(th[t].src)) =>
                  (th[t].err # Nil /\ th[t].launched = "none")
            /\ th[t].err = Nil =>
                  /\ th[t].launched = th[t].src /\ Compiles(th[t].src)
                  /\ child.ver = th[t].src
            /\ th[t].err # Nil =>
                  /\ th[t].launched = "none"
                  /\ \E x \in {"compile error"} \cup RunErrs \cup StopErrs :
                        Contains(th[t].err, x)
            /\ Contains(th[t].err, "compile error") => ~Compiles(th[t].src)

\* the previous "write" event on this thread failed to compile while a child
\* was running; this one, after the fix, returned nil and the child runs v2
C7_Witness ==
    \E t \in Threads :
        /\ WriteEventReturned(t) /\ th[t].op = "HandleFileEvent"
        /\ th[t].prevFail /\ th[t].child0 = "v1"
        /\ th[t].err = Nil /\ child.ver = "v2"

\* C8: every Start of the external strategy calls the compiler first and the
\* runner second; the runner is called only for a source that compiled, and
\* a compile error is returned with nothing run.
C8_StartCompilesThenRuns ==
    \A t \in Threads :
        (th[t].self.kind = "ext" /\ "Start" \in Range(th[t].trace)) =>
            /\ IsPrefix(From(th[t].trace, "Start"), <<"Start", "compile", "run">>)
            /\ "run" \in Range(th[t].trace) => Compiles(th[t].src)
            /\ (Returned(t) /\ th[t].op = "Start") =>
                  /\ "compile" \in Range(th[t].trace)
                  /\ ~Compiles(th[t].src) =>
                        /\ Contains(th[t].err, "compile error")
                        /\ th[t].launched = "none"
                  /\ Compiles(th[t].src) => "run" \in Range(th[t].trace)

\* a Start of the external strategy, begun while an executable of an earlier
\* start was on disk, has compiled and then run
C8_Witness ==
    \E t \in Threads :
        /\ Returned(t) /\ th[t].op = "Start" /\ th[t].self.kind = "ext"
        /\ th[t].bin0 = "v1" /\ th[t].src = "v2"
        /\ th[t].trace = <<"Start", "compile", "run">>
        /\ th[t].err = Nil

\* C9: a "write" event handled by the external strategy has called Restart,
\* whatever the file name, and has returned exactly what Restart returned.
C9_WriteAlwaysRestarts ==
    \A t \in Threads :
        (/\ Returned(t) /\ th[t].op = "HandleFileEvent"
         /\ th[t].self.kind = "ext" /\ th[t].event = "write")
        => /\ "Restart" \in Range(th[t].trace)
           /\ "compile" \in Range(th[t].trace)
           /\ th[t].err = th[t].rerr

\* a "write" of a file other than the main source file has restarted the
\* external program and returned the error of the failed restart
C9_Witness ==
    \E t \in Threads :
        /\ Returned(t) /\ th[t].op = "HandleFileEvent"
        /\ th[t].self.kind = "ext" /\ th[t].event = "write"
        /\ th[t].name = "utils.go"
        /\ th[t].err # Nil /\ th[t].err = th[t].rerr

\* C10: a "create" event handled by the external strategy has started the
\* program (compile then run, no stop) when the file is the main source
\* file, and has done nothing for any other file.
C10_CreateMainStarts ==
    \A t \in Threads :
        (/\ Returned(t) /\ th[t].op = "HandleFileEvent"
         /\ th[t].self.kind = "ext" /\ th[t].event = "create")
        => IF th[t].name = MainFile
           THEN /\ "compile" \in Range(th[t].trace)
                /\ "stop" \notin Range(th[t].trace)
           ELSE th[t].trace = <<>>

\* the steps that stop, compile or run the external program
ProgramSteps ==
    {"stop", "compile", "run"}

\* C11: a NewFileEvent call that has returned has forwarded the event to
\* HandleFileEvent of the active strategy, and while the embedded strategy
\* is active a NewFileEvent call stops, compiles and runs nothing.
C11_NewFileEventForwards ==
    \A t \in Threads :
        th[t].op = "NewFileEvent" =>
            /\ Returned(t) => "HandleFileEvent" \in Range(th[t].trace)
            /\ (inMemory /\ strategy.kind = "mem") =>
                  Range(th[t].trace) \cap ProgramSteps = {}

\* the strategy objects that hold a resource: a bound listener or a running
\* child process
Owners ==
    {i \in DOMAIN mem : ListenerBound(i)}
        \cup (IF child # NoChild /\ child.owner # 0 THEN {child.owner} ELSE {})

\* no call is in the middle of its work: every thread is idle, has returned
\* or is blocked in the embedded Start waiting for the shutdown signal
Settled ==
    \A t \in Threads : th[t].pc \in {"idle", "done", "ms_wait"}

\* C12: once the mode switches made so far have done their work, at most
\* one strategy object owns a bound port or a running child.
C12_ModeSwitchExclusivity ==
    Settled => Cardinality(Owners) <= 1

\* C13: the step of SetExternalServerMode(m) taken while the flag already
\* says mode m is the return of the call: nothing was stopped, constructed
\* or started, nothing was logged, and the flag, the active strategy and
\* every resource are as before.
C13_SameModeIsNoOp ==
    [][\A t \in Threads :
          (/\ th[t].pc = "sem_check" /\ th'[t] # th[t]
           /\ inMemory = ~th[t].ext)
          => /\ th'[t].pc = Head(th[t].stack)
             /\ th'[t].trace = <<>> /\ th'[t].log = <<>>
             /\ ~th'[t].started /\ th'[t].old = NoSelf
             /\ UNCHANGED <<inMemory, strategy, mem, nextInst, srv, port,
                            file, binary, child>>]_vars

\* SetExternalServerMode(true) was called a second time, after the switch
\* to the external strategy, and returned without doing anything
C13_Witness ==
    \E t \in Threads :
        /\ Returned(t) /\ th[t].op = "SetExternalServerMode" /\ th[t].ext
        /\ th[t].old = NoSelf /\ th[t].trace = <<>>
        /\ ~inMemory /\ strategy = [kind |-> "ext", id |-> 2]

\* a mode switch made by the call on thread t has returned and the start of
\* the external strategy it constructed failed (compile or run error)
SwitchStartFailed(t) ==
    /\ Returned(t)
    /\ th[t].op \in {"SetExternalServerMode", "CreateTemplateServer"}
    /\ th[t].started /\ th[t].self.kind = "ext"
    /\ th[t].launched = "none"

\* C14: after a mode switch whose start of the new strategy failed, the flag
\* says the attempted mode and the active strategy is the newly constructed
\* object, not the one that was replaced.
C14_NoRollback ==
    \A t \in Threads :
        SwitchStartFailed(t) =>
            /\ ~inMemory
            /\ strategy = th[t].self
            /\ strategy.kind = "ext"
            /\ strategy # th[t].old

\* CreateTemplateServer returned the error of a failed compile and the
\* handler is in external mode with the new strategy
C14_Witness ==
    \E t \in Threads :
        /\ SwitchStartFailed(t) /\ th[t].op = "CreateTemplateServer"
        /\ Contains(th[t].err, "failed to start external server")
        /\ Contains(th[t].err, "compile error")
        /\ ~inMemory /\ strategy.kind = "ext" /\ th[t].old.kind = "mem"

\* the texts of the errors the collaborators report
FailureTexts ==
    {"compile error"} \cup RunErrs \cup StopErrs \cup ShutdownErrs

\* a mode switch made by the call on thread t has returned after the stop of
\* the old strategy or the start of the new one failed
SwitchFailed(t) ==
    \/ SwitchStartFailed(t)
    \/ /\ Returned(t) /\ th[t].op = "CreateTemplateServer"
       /\ Contains(th[t].err, "failed to stop in-memory server")

\* C15: a mode switch whose stop or start step failed has returned an error
\* to its caller and has logged the failure.
C15_SwitchFailureReported ==
    \A t \in Threads :
        SwitchFailed(t) =>
            /\ th[t].err # Nil
            /\ \E k \in 1..Len(th[t].log) :
                  Range(th[t].log[k]) \cap FailureTexts # {}

\* C16: right after New, before any call or write, the handler is in
\* external mode with the external strategy when the main source file
\* exists, and in embedded mode with the embedded strategy otherwise.
C16_NewSelectsByFile ==
    (budget = MaxEvents /\ nextInst = 1) =>
        IF Exists(file)
        THEN ~inMemory /\ strategy.kind = "ext"
        ELSE inMemory /\ strategy.kind = "mem"

\* the listener of embedded strategy object i holds the port after the step
ListenerBoundNext(i) ==
    port' \in Threads /\ mem'[i].server = port'

\* the steps of an embedded Start that found the strategy idle: it goes on
\* to create the server and to wait, it leaves the wait only by receiving the
\* shutdown signal and then calls Stop, and when it returns the strategy is
\* idle with its listener released
StartLifecycleStep(t) ==
    LET i == th[t].self.id
    IN  /\ (th[t].pc = "ms_lock" /\ ~mem[i].running /\ th'[t] # th[t]) =>
              (th'[t].pc = "ms_server" /\ mem'[i].running)
        /\ (th[t].pc = "ms_server" /\ th'[t] # th[t]) => th'[t].pc = "ms_wait"
        /\ (th[t].pc = "ms_wait" /\ th'[t].pc # "ms_wait") =>
              /\ exitPending > 0 /\ exitPending' = exitPending - 1
              /\ th'[t].pc = "mstop"
        /\ (th[t].pc = "ms_ret" /\ th'[t] # th[t]) =>
              /\ th'[t].pc = Head(th[t].stack) /\ th'[t].err = Nil
              /\ ~mem'[i].running /\ mem'[i].server = "nil"
              /\ ~ListenerBoundNext(i)
              /\ srv'[t] \in {"closed"}

\* C17: an embedded Start that finds the strategy idle does not return
\* before it has received the shutdown signal; once the signal is there the
\* Start shuts the server down and returns, and the strategy is idle again
\* (running = false, no server, listener released).
C17_EmbeddedLifecycle ==
    /\ [][\A t \in Threads : StartLifecycleStep(t)]_vars
    /\ \A t \in {"t1"} :
          (th[t].pc = "ms_wait" /\ exitPending > 0)
              ~> (/\ th[t].pc = "done" /\ th[t].self.kind = "mem"
                  /\ ~mem[th[t].self.id].running
                  /\ ~ListenerBound(th[t].self.id))

\* a Start that found the strategy idle and bound the port has returned
\* after the shutdown signal: the server is closed and the port is free
C17_Witness ==
    \E t \in Threads :
        /\ Returned(t) /\ th[t].op = "Start" /\ th[t].self.kind = "mem"
        /\ th[t].trace = <<"Start", "Stop">>
        /\ <<"In-Memory Server stopped">> \in Range(th[t].log)
        /\ srv[t] = "closed" /\ port = "free"
        /\ ~mem[th[t].self.id].running

\* C18: in every interleaving of an embedded Start with a Stop called from
\* another context, the step by which Stop returns success leaves the
\* strategy idle: running = false, no server handle, listener not bound (so
\* the Start in flight has nothing left to bind).
C18_StopLeavesIdle ==
    [][\A u \in Threads :
          (/\ th[u].pc = "mstop" /\ th'[u].pc # "mstop"
           /\ th'[u].err = Nil)
          => LET i == th[u].self.id
             IN  /\ ~mem'[i].running
                 /\ mem'[i].server = "nil"
                 /\ ~ListenerBoundNext(i)]_vars

\* C19: the step of an embedded Stop taken while the strategy is not
\* running is the return of the call with a nil error, and it changes
\* neither the strategy, the server, the port nor the log.
C19_StopIdempotent ==
    [][\A u \in Threads :
          (/\ th[u].pc = "mstop" /\ th'[u].pc # "mstop"
           /\ ~mem[th[u].self.id].running)
          => /\ th'[u].pc = Head(th[u].stack)
             /\ th'[u].err = Nil
             /\ th'[u].log = th[u].log
             /\ UNCHANGED <<inMemory, strategy, mem, nextInst, srv, port,
                            file, binary, child, exitPending>>]_vars

\* the strategy was started and shut down by the shutdown signal; a Stop
\* called afterwards has returned nil and the strategy is as it was
C19_Witness ==
    \E t, u \in Threads :
        /\ t # u /\ srv[t] = "closed" /\ Returned(t) /\ th[t].op = "Start"
        /\ Returned(u) /\ th[u].op = "Stop" /\ th[u].self = th[t].self
        /\ th[u].self.kind = "mem"
        /\ th[u].err = Nil /\ th[u].log = <<>>
        /\ mem[th[u].self.id] = NewInMemory

\* C20: the step of HandleFileEvent (any file, any event) or Restart of the
\* embedded strategy is the return of the call with a nil error and changes
\* neither the running flag, the server and its listener, nor the mode.
C20_EmbeddedEventsAreNoOps ==
    [][\A t \in Threads :
          (th[t].pc \in {"mevent", "mrestart"} /\ th'[t] # th[t])
          => /\ th'[t].pc = Head(th[t].stack)
             /\ th'[t].err = Nil
             /\ th'[t].log = th[t].log
             /\ UNCHANGED <<inMemory, strategy, mem, nextInst, srv, port,
                            file, binary, child, exitPending>>]_vars

\* while the embedded server is listening, a "write" event for the main
\* source file has returned nil and the server is still listening
C20_Witness ==
    \E t, u \in Threads :
        /\ th[t].pc = "ms_wait" /\ srv[t] = "listening" /\ port = t
        /\ mem[th[t].self.id].running
        /\ Returned(u) /\ th[u].op = "HandleFileEvent" /\ th[u].self = th[t].self
        /\ th[u].event = "write" /\ th[u].name = MainFile
        /\ th[u].err = Nil /\ th[u].trace = <<>>
        /\ inMemory /\ strategy = th[t].self

\* C21: StartServer with the main source file missing calls the generator
\* and lets it return before the first compile; with the file present it
\* goes straight to compile and then run and leaves the file as it is.
C21_GenerateBeforeCompile ==
    /\ [](\A t \in Threads :
            th[t].op = "StartServer" =>
                \/ IsPrefix(th[t].trace, <<"generate", "compile", "run">>)
                \/ IsPrefix(th[t].trace, <<"compile", "run">>))
    /\ [][\A t \in Threads :
            /\ (th[t].pc = "ss_stat" /\ th'[t] # th[t]) =>
                  IF Exists(file)
                  THEN th'[t].pc = "hss_compile" /\ file' = file
                  ELSE th'[t].pc = "gen_stat" /\ th'[t].trace = <<>>
            /\ (th[t].op = "StartServer" /\ th[t].pc # "hss_compile"
                 /\ th'[t].pc = "hss_compile") =>
                  th[t].pc \in {"ss_stat", "ss_generated"}]_vars

\* StartServer found no main file, generated it, then compiled and ran
\* the generated program
C21_Witness ==
    \E t \in Threads :
        /\ Returned(t) /\ th[t].op = "StartServer"
        /\ th[t].pre = Absent
        /\ th[t].trace = <<"generate", "compile", "run">>
        /\ th[t].src = GeneratedContent /\ child.ver = GeneratedContent
        /\ th[t].err = Nil

\* C22: generation is idempotent. Once the generator has written the
\* target, a further call leaves the file and its bytes as the first call
\* left them, and that call returns nil.
C22_IdempotentGeneration ==
    /\ [](\A t \in Threads :
            (Returned(t) /\ th[t].op = "generate" /\ th[t].pre = GeneratedContent) =>
                /\ th[t].err = Nil
                /\ file = GeneratedContent)
    /\ [][file = GeneratedContent =>
            file' = GeneratedContent /\ scaffold' = scaffold]_vars

C22_Witness ==
    \E t \in Threads :
        /\ Returned(t) /\ th[t].op = "generate"
        /\ th[t].pre = GeneratedContent
        /\ th[t].err = Nil
        /\ th[t].writes = 0
        /\ scaffold # <<>>

\* the target-language blocks of document d, in document order
GoBlocks(d) ==
    SelectSeq(d, LAMBDA s : s.kind = "go")

\* body b without its leading and trailing white space
Trimmed(b) ==
    LET ink == {i \in 1..Len(b) : b[i] # "sp"}
    IN  IF ink = {} THEN <<>>
        ELSE SubSeq(b, CHOOSE i \in ink : \A j \in ink : i <= j,
                       CHOOSE i \in ink : \A j \in ink : j <= i)

\* trim(B_k) + blank line + ... + trim(B_n)
RECURSIVE Concatenation(_, _)
Concatenation(bs, k) ==
    IF k > Len(bs) THEN <<>>
    ELSE IF k = Len(bs) THEN Trimmed(bs[k].body)
         ELSE Trimmed(bs[k].body) \o <<"\n\n">> \o Concatenation(bs, k + 1)

\* the template over document d cannot be parsed or cannot be executed
TemplateFails(d) ==
    \E i \in 1..Len(d) : \E k \in 1..Len(d[i].body) :
        d[i].body[k] \in {"open", "bad"}

\* C23: when the template over the embedded document cannot be parsed or
\* executed, the generator logs the failure, does not return it, and the
\* file it writes holds the code blocks of the document as embedded; the
\* only error such a call can return is the writer's.
C23_TemplateFallback ==
    \A t \in Threads :
        (Returned(t) /\ th[t].op = "generate" /\ th[t].pre = Absent
                     /\ TemplateFails(doc)) =>
            /\ \E i \in 1..Len(th[t].log) :
                  th[t].log[i] \in {<<"Template parsing error (using fallback):">>,
                                    <<"Template execution error (using fallback):">>}
            /\ th[t].writes = 1
            /\ th[t].err # Nil => \E e \in WriteErrs : Contains(th[t].err, e)
            /\ th[t].err = Nil =>
                  /\ file = GeneratedContent
                  /\ scaffold = Concatenation(GoBlocks(doc), 1)

C23_Witness ==
    \E t \in Threads :
        /\ Returned(t) /\ th[t].op = "generate" /\ th[t].pre = Absent
        /\ th[t].tmplErr = "exec"
        /\ th[t].err = Nil
        /\ file = GeneratedContent
        /\ "port" \in Range(scaffold)

\* C24: the file a generation writes is trim(B1), blank line, trim(B2),
\* ..., blank line, trim(Bn) for the target-language blocks B1..Bn of the
\* processed document in document order; other segments contribute nothing.
C24_BlockConcatenationOrder ==
    \A t \in Threads :
        (Returned(t) /\ th[t].op = "generate" /\ th[t].pre = Absent
                     /\ th[t].err = Nil) =>
            /\ file = GeneratedContent
            /\ scaffold = Concatenation(GoBlocks(th[t].processed), 1)

C24_Witness ==
    \E t \in Threads :
        /\ Returned(t) /\ th[t].op = "generate" /\ th[t].err = Nil
        /\ Len(doc) = 3
        /\ doc[1].kind = "go" /\ doc[2].kind = "text" /\ doc[3].kind = "go"
        /\ scaffold = <<"y", "\n\n", "x">>

\* C28: when the writer fails, the generator makes that one attempt only
\* and returns an error, and the target is as it was before the call.
C28_WriteFailureReported ==
    /\ [](\A t \in Threads :
            (Returned(t) /\ th[t].op = "generate" /\ th[t].err # Nil) =>
                /\ th[t].writes = 1
                /\ file = th[t].pre)
    /\ [][\A t \in Threads :
            (th[t].pc = "gen_write" /\ th'[t] # th[t]) =>
                /\ th'[t].writes = 1
                /\ file' # GeneratedContent =>
                      /\ Returned(t)'
                      /\ th'[t].err # Nil
                      /\ file' = file /\ scaffold' = scaffold]_vars

C28_Witness ==
    \E t \in Threads :
        /\ Returned(t) /\ th[t].op = "generate"
        /\ Contains(th[t].err, "permission denied")
        /\ th[t].writes = 1
        /\ th[t].pre = Absent /\ file = Absent

\* the call on thread t is a restart: Restart itself or a "write" event
RestartCall(t) ==
    \/ th[t].op = "Restart"
    \/ th[t].op \in {"HandleFileEvent", "NewFileEvent"} /\ th[t].event = "write"

\* every text the call on thread t has handed to the Logger
LoggedTexts(t) ==
    UNION {Range(th[t].log[k]) : k \in 1..Len(th[t].log)}

\* C25: the log of a restart, called as Restart or through a "write" file
\* event, never holds a termination-signal text; an error the restart
\* returns that is not a termination signal is in the log; and the error of
\* the restart is what the caller gets.
C25_SignalErrorsFiltered ==
    \A t \in Threads :
        RestartCall(t) =>
            /\ LoggedTexts(t) \cap IgnoreError = {}
            /\ (Returned(t) /\ th[t].err # Nil /\ ~ShouldIgnore(th[t].err)) =>
                  Range(th[t].err) \cap LoggedTexts(t) # {}
            /\ (Returned(t) /\ th[t].rerr # Nil) => th[t].err = th[t].rerr

\* the texts RestartServer joins to an error to name the failing phase
PhaseTags ==
    {"stop server", "compile server", "run server"}

\* the call on thread t starts or restarts the external program
ProgramCall(t) ==
    \/ th[t].op \in {"Start", "Restart"} /\ th[t].self.kind = "ext"
    \/ th[t].op = "NewFileEvent" /\ th[t].event = "write"

\* C26: an error returned by a start or restart of the external program
\* carries the name of exactly one phase, and that phase is the one that
\* failed: compile for a compile error, run for a RunProgram error, stop
\* for a StopProgram error of a restart.
C26_ErrorNamesPhase ==
    \A t \in Threads :
        (ProgramCall(t) /\ Returned(t) /\ th[t].err # Nil) =>
            /\ Cardinality(Range(th[t].err) \cap PhaseTags) = 1
            /\ Contains(th[t].err, "compile error") => Contains(th[t].err, "compile server")
            /\ (Contains(th[t].err, "compile server") \/ Contains(th[t].err, "stop server")) =>
                  "run" \notin Range(th[t].trace)
            /\ Contains(th[t].err, "run server") => "run" \in Range(th[t].trace)

\* field f of Config c is missing or empty
Missing(c, f) ==
    c[f] = (IF f \in StringFields THEN "" ELSE "nil")

\* the fields New gives a default to (the route table is optional)
DefaultedFields ==
    DOMAIN NewConfig \ {"Routes"}

\* C27: after New no defaulted field is missing; a field the caller
\* supplied keeps the caller's value; a text field the caller left empty
\* holds the text of NewConfig(); and New(nil) gives the same
\* configuration as New of a Config with every field left out.
C27_NewDefaults ==
    cfg.phase = "constructed" =>
        /\ \A f \in DefaultedFields : ~Missing(cfg.c, f)
        /\ \A f \in DOMAIN NewConfig :
              (cfg.arg = "ptr" /\ ~Missing(cfg.in, f)) => cfg.c[f] = cfg.in[f]
        /\ \A f \in StringFields :
              (cfg.arg = "nil" \/ Missing(cfg.in, f)) => cfg.c[f] = NewConfig[f]
        /\ (cfg.arg = "nil" \/ cfg.in = ZeroConfig) =>
              \A f \in DefaultedFields \ StringFields : cfg.c[f] = "default"

C31_SwitchReturns ==
    \A t \in Threads :
        (th[t].op = "SetExternalServerMode" /\ ~Returned(t)) ~> Returned(t)

\* the active strategy is the embedded one and it is running
ActiveRunning ==
    strategy.kind = "mem" /\ mem[strategy.id].running

\* C32: when an embedded Start takes the shutdown signal from ExitChan, no
\* other embedded Start is left waiting on the channel, and a Start of a
\* strategy that has been replaced does not take the signal while the
\* active strategy is running.
C32_OneSignalStopsAll ==
    [][\A t \in Threads :
        (th[t].pc = "ms_wait" /\ th'[t].pc # "ms_wait") =>
            /\ \A u \in Threads \ {t} : th[u].pc # "ms_wait"
            /\ th[t].self # strategy => ~ActiveRunning]_vars

\* C33: the write step of the generator leaves alone a target that exists
\* when the step is taken, whoever created it after the existence check.
C33_NeverOverwriteInterleaved ==
    [][\A t \in Threads :
        (th[t].pc = "gen_write" /\ th'[t].pc # "gen_write" /\ Exists(file)) =>
            file' = file]_vars

\* C34: a Start of an embedded strategy that is running returns nil at
\* once and changes neither the flag nor any server or the port; a server
\* is created only by the Start that took the strategy from idle to
\* running, once, as its next step.
C34_StartWhileRunning ==
    [][\A t \in Threads :
        /\ (th[t].pc = "ms_lock" /\ th'[t].pc # "ms_lock"
                /\ mem[th[t].self.id].running) =>
              /\ th'[t].pc = Head(th[t].stack)
              /\ th'[t].err = Nil
              /\ mem' = mem /\ srv' = srv /\ port' = port
        /\ (srv'[t] = "new" /\ srv[t] # "new") =>
              th[t].pc = "ms_server" /\ th'[t].pc = "ms_wait"
        /\ (th'[t].pc = "ms_server" /\ th[t].pc # "ms_server") =>
              /\ th[t].pc = "ms_lock"
              /\ ~mem[th[t].self.id].running
              /\ mem'[th[t].self.id].running]_vars

\* a Start has returned at once while another context is inside the Start
\* of the same, running, strategy
C34_Witness ==
    \E t, u \in Threads :
        /\ t # u
        /\ Returned(t) /\ th[t].op = "Start" /\ th[t].self.kind = "mem"
        /\ th[t].trace = <<"Start">> /\ srv[t] = "none" /\ th[t].err = Nil
        /\ th[u].pc = "ms_wait" /\ th[u].self = th[t].self
        /\ mem[th[t].self.id].running
        /\ srv[u] = "listening"

\* C35: once the ListenAndServe of an embedded Start has made its bind
\* attempt, a strategy whose running flag is set and whose server is the
\* one of that Start has that server listening on the port.
C35_RunningMeansBound ==
    \A t \in Threads :
        (/\ th[t].pc = "ms_wait"
         /\ srv[t] # "new"
         /\ mem[th[t].self.id].running
         /\ mem[th[t].self.id].server = t) =>
            srv[t] = "listening" /\ port = t

\* C36: a Start or StartServer that was given a WaitGroup has called Done
\* on it at most once, and has called it once exactly when it has returned.
C36_DoneExactlyOnce ==
    \A t \in Threads :
        (th[t].op \in {"Start", "StartServer"} /\ th[t].wg) =>
            /\ th[t].dones <= 1
            /\ Returned(t) <=> th[t].dones = 1

\* an embedded Start with a WaitGroup has returned after the shutdown
\* signal, having stopped its server and called Done once
C36_Witness ==
    \E t \in Threads :
        /\ Returned(t) /\ th[t].op = "Start" /\ th[t].wg
        /\ th[t].self.kind = "mem"
        /\ th[t].trace = <<"Start", "Stop">>
        /\ srv[t] = "closed"
        /\ th[t].dones = 1

\* C37: the steps of a CreateTemplateServer call come in the order stop,
\* generate, start, compile, run; the generator writes only a target that
\* was absent; the flag is set after the generation and before the external
\* strategy is constructed, which is before its start; and a call made in
\* external mode returns nil as its first step and changes nothing.
C37_CreateTemplateServerOrder ==
    /\ [](\A t \in Threads :
            th[t].op = "CreateTemplateServer" =>
                IsPrefix(th[t].trace, <<"Stop", "generate", "Start", "compile", "run">>))
    /\ [][\A t \in Threads :
            (th[t].op = "CreateTemplateServer" /\ th'[t].op = "CreateTemplateServer"
                    /\ th'[t] # th[t]) =>
                /\ (th[t].pc = "cts_check" /\ th'[t].pc # "cts_check" /\ ~inMemory) =>
                      /\ Returned(t)' /\ th'[t].err = Nil /\ th'[t].trace = <<>>
                      /\ UNCHANGED <<inMemory, strategy, mem, nextInst, srv, port,
                                     file, binary, child, scaffold>>
                /\ file' # file => th[t].pc = "gen_write" /\ th[t].pre = Absent
                /\ inMemory' # inMemory =>
                      /\ th[t].pc = "cts_generated"
                      /\ th[t].trace = <<"Stop", "generate">>
                      /\ ~inMemory' /\ strategy' = strategy
                /\ strategy' # strategy =>
                      /\ th[t].pc = "cts_new" /\ ~inMemory
                      /\ strategy'.kind = "ext"
                      /\ th[t].trace = <<"Stop", "generate">>
                /\ (Len(th'[t].trace) > 2 /\ Len(th[t].trace) = 2) =>
                      ~inMemory /\ strategy.kind = "ext" /\ strategy # th[t].old]_vars

C37_Witness ==
    \E t \in Threads :
        /\ Returned(t) /\ th[t].op = "CreateTemplateServer"
        /\ th[t].trace = <<"Stop", "generate", "Start", "compile", "run">>
        /\ th[t].pre = Absent /\ file = GeneratedContent
        /\ ~inMemory /\ strategy.kind = "ext" /\ th[t].old.kind = "mem"
        /\ child.ver = GeneratedContent
        /\ th[t].err = Nil

\* the CreateTemplateServer call on thread t has returned an error of its
\* stop phase or of its generate phase
EarlyFailure(t) ==
    /\ Returned(t) /\ th[t].op = "CreateTemplateServer"
    /\ th[t].err # Nil
    /\ ~Contains(th[t].err, "failed to start external server")

\* C38: a CreateTemplateServer that failed while stopping or generating
\* has returned an error that names that phase, the flag still says
\* embedded, the active strategy is the object it was, no strategy object
\* has been constructed by the call and none has been started.
C38_EarlyFailureKeepsEmbedded ==
    \A t \in Threads :
        EarlyFailure(t) =>
            /\ \/ /\ Contains(th[t].err, "failed to stop in-memory server")
                  /\ th[t].trace = <<"Stop">>
               \/ /\ Contains(th[t].err, "failed to generate server files")
                  /\ th[t].trace = <<"Stop", "generate">>
            /\ inMemory
            /\ strategy = th[t].old /\ strategy.kind = "mem"
            /\ nextInst = strategy.id
            /\ ~th[t].started
            /\ th[t].launched = "none"

\* CreateTemplateServer has returned the Shutdown error of the running
\* embedded server and the handler is still in embedded mode
C38_Witness ==
    \E t \in Threads :
        /\ EarlyFailure(t)
        /\ Contains(th[t].err, "failed to stop in-memory server")
        /\ Contains(th[t].err, "context deadline exceeded")
        /\ inMemory /\ strategy = th[t].old
        /\ ~mem[strategy.id].running

\* what Label and Execute read from stored value v
StoredExternal(v) ==
    v = "true"

\* C39: when an Execute call has returned, the store says external exactly
\* when the handler is in external mode; and when the call before it was
\* an Execute too, the stored mode and the handler's mode are what they
\* were when that call began.
C39_StoreAgreesWithMode ==
    \A t \in Threads :
        (Returned(t) /\ th[t].op = "Execute") =>
            /\ StoredExternal(db) <=> ~inMemory
            /\ th[t].db00 # "none" =>
                  /\ StoredExternal(db) <=> StoredExternal(th[t].db00)
                  /\ inMemory <=> th[t].mode00 = "mem"

====
